---- MODULE Spec2Model ----
(***************************************************************************)
(* Model of the conversational MRT review service                          *)
(* (backend/app/service/chat.py): the in-memory SessionStore, the          *)
(* five-state conversation state machine and the per-turn handler          *)
(* ChatService.chat_stream.                                                *)
(*                                                                         *)
(* Text is a sequence of characters.  A character is a one-character       *)
(* string; a literal of the source (a fixed phrase of a message template)  *)
(* is kept whole as one element, with the white space at its ends split    *)
(* off so that strip() sees it; the Chinese phrases of the source are       *)
(* written in English.  Python's None is the value None below.             *)
(* An identifier made by uuid4 is fresh: it is the first name of a pool     *)
(* that is in use nowhere in the store and was not handed out earlier in   *)
(* the same turn.  Identifiers are opaque, so which fresh name is taken    *)
(* makes no difference.                                                    *)
(***************************************************************************)
EXTENDS Integers, Sequences, FiniteSets, TLC

VARIABLES
    sessions,    \* SessionStore._sessions: session id -> session dict
    turn         \* the turn being served (request, locals, output) or idle

vars == <<sessions, turn>>

----------------------------------------------------------------------------
(* Bounds *)

MaxSessions == 1
MaxMrtIds == 3

SidPool == <<"s1", "s2", "s3", "s4">>
MrtIdPool == <<"m1", "m2", "m3", "m4", "m5", "m6">>

----------------------------------------------------------------------------
(* Values *)

None == <<"<None>">>

INITIAL == "INITIAL"
AWAITING_MRT == "AWAITING_MRT"
AWAITING_REQUIREMENT == "AWAITING_REQUIREMENT"
REVIEWING == "REVIEWING"
COMPLETED == "COMPLETED"

ConversationState == {INITIAL, AWAITING_MRT, AWAITING_REQUIREMENT, REVIEWING, COMPLETED}

Whitespace == {" ", "\n", "\t", "\r"}

\* bool(x) of an Optional[str]
Truthy(x) == x # None /\ x # <<>>

Min(a, b) == IF a <= b THEN a ELSE b

\* s[:n]
Prefix(s, n) == SubSeq(s, 1, Min(Len(s), n))

RECURSIVE lstrip(_)
lstrip(s) ==
    IF s # <<>> /\ Head(s) \in Whitespace THEN lstrip(Tail(s)) ELSE s

RECURSIVE rstrip(_)
rstrip(s) ==
    IF s # <<>> /\ s[Len(s)] \in Whitespace
    THEN rstrip(SubSeq(s, 1, Len(s) - 1))
    ELSE s

\* str.strip()
strip(s) == rstrip(lstrip(s))

\* s.startswith(p)
startswith(s, p) == Len(s) >= Len(p) /\ SubSeq(s, 1, Len(p)) = p

\* str(n) for n >= 0
RECURSIVE IntToStr(_)
IntToStr(n) ==
    LET d == <<"0", "1", "2", "3", "4", "5", "6", "7", "8", "9">>
    IN  IF n < 10 THEN <<d[n + 1]>> ELSE IntToStr(n \div 10) \o <<d[(n % 10) + 1]>>

\* "sep".join(parts)
RECURSIVE join(_, _)
join(sep, parts) ==
    IF parts = <<>> THEN <<>>
    ELSE IF Len(parts) = 1 THEN parts[1]
    ELSE parts[1] \o sep \o join(sep, Tail(parts))

----------------------------------------------------------------------------
(* MRTEntry and SessionStore *)

\* MRTEntry.__init__ with the id uuid4 produced; name defaults to MRT-<id>
MRTEntry(id, content, name) ==
    [id |-> id,
     name |-> IF Truthy(name) THEN name ELSE <<"MRT-", id>>,
     content |-> content]

\* the value of "no entry" (None where an MRTEntry is expected)
NoEntry == [id |-> "None", name |-> None, content |-> None]

NewSession ==
    [state |-> INITIAL,
     mrts |-> <<>>,
     current_mrt_id |-> "None",
     software_requirement |-> None]

\* create with the store replaced by the new session alone
create_forgetsOthers(ss, session_id) ==
    [s \in {session_id} |-> NewSession]

\* SessionStore.create, session_id being the id uuid4 produced
create(ss, session_id) ==
    [s \in DOMAIN ss \cup {session_id} |->
        IF s = session_id THEN NewSession ELSE ss[s]]

\* SessionStore.get: dict.get, None for a missing key
get(ss, session_id) ==
    IF session_id \in DOMAIN ss THEN ss[session_id] ELSE "None"

\* SessionStore.get_current_mrt
get_current_mrt(ss, session_id) ==
    IF session_id \notin DOMAIN ss THEN NoEntry
    ELSE LET session == ss[session_id]
             current_id == session.current_mrt_id
         IN  IF current_id = "None" THEN NoEntry
             ELSE IF current_id \in DOMAIN session.mrts
                  THEN session.mrts[current_id]
                  ELSE NoEntry

\* has_mrt without the test of the content: any current entry counts
has_mrt_anyEntry(ss, session_id) ==
    get_current_mrt(ss, session_id) # NoEntry

\* SessionStore.has_mrt
has_mrt(ss, session_id) ==
    LET mrt == get_current_mrt(ss, session_id)
    IN  mrt # NoEntry /\ strip(mrt.content) # <<>>

\* SessionStore.has_requirement
has_requirement(ss, session_id) ==
    IF session_id \notin DOMAIN ss THEN FALSE
    ELSE LET req == ss[session_id].software_requirement
         IN  req # None /\ strip(req) # <<>>

\* SessionStore.can_start_review
can_start_review(ss, session_id) == has_mrt(ss, session_id)

\* a mutation that makes the missing session instead of raising
on_not_found_creates(ss, session_id) == create(ss, session_id)

\* the store a mutation leaves behind when `session_id not in self._sessions`
\* made it raise KeyError("Session not found"): nothing was written
on_not_found(ss, session_id) == ss

\* add_mrt that keeps the new entry alone in the map
add_mrt_replacesMap(ss, session_id, id, content, name) ==
    [ss EXCEPT ![session_id].mrts = [k \in {id} |-> MRTEntry(id, content, name)],
               ![session_id].current_mrt_id = id]

\* SessionStore.add_mrt on a known session, id being the new entry's id
add_mrt(ss, session_id, id, content, name) ==
    LET mrt_entry == MRTEntry(id, content, name)
        old == ss[session_id].mrts
    IN  [ss EXCEPT ![session_id].mrts =
                       [k \in DOMAIN old \cup {id} |->
                           IF k = id THEN mrt_entry ELSE old[k]],
                   ![session_id].current_mrt_id = id]

\* clear_mrt with line 76 left out: the map is emptied, the pointer stays
clear_mrt_keepsPointer(ss, session_id) ==
    [ss EXCEPT ![session_id].mrts = <<>>]

\* clear_mrt that empties the MRT map of every session
clear_mrt_everySession(ss, session_id) ==
    [s \in DOMAIN ss |-> [ss[s] EXCEPT !.mrts = <<>>, !.current_mrt_id = "None"]]

\* SessionStore.clear_mrt on a known session
clear_mrt(ss, session_id) ==
    [ss EXCEPT ![session_id].mrts = <<>>,
               ![session_id].current_mrt_id = "None"]

\* SessionStore.set_state on a known session
set_state(ss, session_id, state) ==
    [ss EXCEPT ![session_id].state = state]

----------------------------------------------------------------------------
(* ChatService: the state machine and the prompt helpers *)

\* _determine_next_state with line 110 not excepting INITIAL
_determine_next_state_anyState(session, has_mrt_, has_req, detected_new_mrt) ==
    LET current_state == session.state
    IN  IF detected_new_mrt
        THEN (IF ~has_req THEN AWAITING_REQUIREMENT ELSE REVIEWING)
        ELSE IF current_state = INITIAL
        THEN (IF ~has_mrt_ THEN AWAITING_MRT ELSE REVIEWING)
        ELSE IF current_state = AWAITING_MRT
        THEN (IF has_mrt_ THEN AWAITING_REQUIREMENT ELSE AWAITING_MRT)
        ELSE IF current_state = AWAITING_REQUIREMENT
        THEN (IF has_mrt_ THEN REVIEWING ELSE AWAITING_MRT)
        ELSE IF current_state = REVIEWING
        THEN REVIEWING
        ELSE IF current_state = COMPLETED
        THEN (IF has_mrt_ THEN REVIEWING ELSE AWAITING_MRT)
        ELSE current_state

\* _determine_next_state with the test of line 124 inverted
_determine_next_state_invertedTest(session, has_mrt_, has_req, detected_new_mrt) ==
    LET current_state == session.state
    IN  IF detected_new_mrt /\ current_state # INITIAL
        THEN (IF ~has_req THEN AWAITING_REQUIREMENT ELSE REVIEWING)
        ELSE IF current_state = INITIAL
        THEN (IF ~has_mrt_ THEN AWAITING_MRT ELSE REVIEWING)
        ELSE IF current_state = AWAITING_MRT
        THEN (IF has_mrt_ THEN AWAITING_REQUIREMENT ELSE AWAITING_MRT)
        ELSE IF current_state = AWAITING_REQUIREMENT
        THEN (IF ~has_mrt_ THEN REVIEWING ELSE AWAITING_MRT)
        ELSE IF current_state = REVIEWING
        THEN REVIEWING
        ELSE IF current_state = COMPLETED
        THEN (IF has_mrt_ THEN REVIEWING ELSE AWAITING_MRT)
        ELSE current_state

\* _determine_next_state with the INITIAL row keeping INITIAL without MRT
_determine_next_state_staysInitial(session, has_mrt_, has_req, detected_new_mrt) ==
    LET current_state == session.state
    IN  IF detected_new_mrt /\ current_state # INITIAL
        THEN (IF ~has_req THEN AWAITING_REQUIREMENT ELSE REVIEWING)
        ELSE IF current_state = INITIAL
        THEN (IF ~has_mrt_ THEN INITIAL ELSE REVIEWING)
        ELSE IF current_state = AWAITING_MRT
        THEN (IF has_mrt_ THEN AWAITING_REQUIREMENT ELSE AWAITING_MRT)
        ELSE IF current_state = AWAITING_REQUIREMENT
        THEN (IF has_mrt_ THEN REVIEWING ELSE AWAITING_MRT)
        ELSE IF current_state = REVIEWING
        THEN REVIEWING
        ELSE IF current_state = COMPLETED
        THEN (IF has_mrt_ THEN REVIEWING ELSE AWAITING_MRT)
        ELSE current_state

\* _determine_next_state with the REVIEWING row ending the review
_determine_next_state_completes(session, has_mrt_, has_req, detected_new_mrt) ==
    LET current_state == session.state
    IN  IF detected_new_mrt /\ current_state # INITIAL
        THEN (IF ~has_req THEN AWAITING_REQUIREMENT ELSE REVIEWING)
        ELSE IF current_state = INITIAL
        THEN (IF ~has_mrt_ THEN AWAITING_MRT ELSE REVIEWING)
        ELSE IF current_state = AWAITING_MRT
        THEN (IF has_mrt_ THEN AWAITING_REQUIREMENT ELSE AWAITING_MRT)
        ELSE IF current_state = AWAITING_REQUIREMENT
        THEN (IF has_mrt_ THEN REVIEWING ELSE AWAITING_MRT)
        ELSE IF current_state = REVIEWING
        THEN (IF has_mrt_ THEN COMPLETED ELSE REVIEWING)
        ELSE IF current_state = COMPLETED
        THEN (IF has_mrt_ THEN REVIEWING ELSE AWAITING_MRT)
        ELSE current_state

\* _determine_next_state with the REVIEWING row asking for the requirement
_determine_next_state_asksAgain(session, has_mrt_, has_req, detected_new_mrt) ==
    LET current_state == session.state
    IN  IF detected_new_mrt /\ current_state # INITIAL
        THEN (IF ~has_req THEN AWAITING_REQUIREMENT ELSE REVIEWING)
        ELSE IF current_state = INITIAL
        THEN (IF ~has_mrt_ THEN AWAITING_MRT ELSE REVIEWING)
        ELSE IF current_state = AWAITING_MRT
        THEN (IF has_mrt_ THEN AWAITING_REQUIREMENT ELSE AWAITING_MRT)
        ELSE IF current_state = AWAITING_REQUIREMENT
        THEN (IF has_mrt_ THEN REVIEWING ELSE AWAITING_MRT)
        ELSE IF current_state = REVIEWING
        THEN (IF has_req THEN REVIEWING ELSE AWAITING_REQUIREMENT)
        ELSE IF current_state = COMPLETED
        THEN (IF has_mrt_ THEN REVIEWING ELSE AWAITING_MRT)
        ELSE current_state

\* ChatService._determine_next_state
_determine_next_state(session, has_mrt_, has_req, detected_new_mrt) ==
    LET current_state == session.state
    IN  IF detected_new_mrt /\ current_state # INITIAL
        THEN (IF ~has_req THEN AWAITING_REQUIREMENT ELSE REVIEWING)
        ELSE IF current_state = INITIAL
        THEN (IF ~has_mrt_ THEN AWAITING_MRT ELSE REVIEWING)
        ELSE IF current_state = AWAITING_MRT
        THEN (IF has_mrt_ THEN AWAITING_REQUIREMENT ELSE AWAITING_MRT)
        ELSE IF current_state = AWAITING_REQUIREMENT
        THEN (IF has_mrt_ THEN REVIEWING ELSE AWAITING_MRT)
        ELSE IF current_state = REVIEWING
        THEN REVIEWING
        ELSE IF current_state = COMPLETED
        THEN (IF has_mrt_ THEN REVIEWING ELSE AWAITING_MRT)
        ELSE current_state

\* ChatService._get_welcome_message
_get_welcome_message ==
    <<"Hello! I am the MRT review assistant.", "\n", "\n",
      "I can help you:", "\n",
      "1. review MRT test cases against the checklist", "\n",
      "2. check coverage against the software requirement", "\n",
      "3. give concrete suggestions", "\n", "\n",
      "Please upload your MRT file (PDF, Word, TXT) or paste the test cases.">>

\* ChatService._get_guidance_message
_get_guidance_message(state) ==
    IF state = AWAITING_MRT
    THEN <<"Please upload an MRT file (PDF, Word, TXT) or paste the test cases.">>
    ELSE IF state = AWAITING_REQUIREMENT
    THEN <<"MRT content received. Do you want to provide a software requirement? (optional)">>
    ELSE IF state = COMPLETED
    THEN <<"Review completed. To review a new MRT, upload a new file or paste content.">>
    ELSE None

\* the checklist get_config().default_checklist yields
default_checklist ==
    <<[id |-> <<"CHK-001">>, description |-> <<"d1">>],
      [id |-> <<"CHK-002">>, description |-> <<"d2">>]>>

\* ChatService._build_system_prompt: the parts the prompt is put together from
_build_system_prompt(state, software_requirement) ==
    LET checklist_string ==
            join(<<"\n">>,
                 [i \in 1..Len(default_checklist) |->
                     <<"-", " ">> \o default_checklist[i].id \o <<":", " ">>
                         \o default_checklist[i].description])
        has_requirement_ ==
            software_requirement # None /\ strip(software_requirement) # <<>>
        requirement_section ==
            IF has_requirement_ THEN <<"\n", "\n", "A software requirement is present, make sure that: ...", "\n">>
            ELSE <<>>
        base_prompt ==
            <<"You are a professional software test review assistant. ...", "\n", "\n", "The current checklist is:", "\n">>
                \o checklist_string \o requirement_section
    IN  IF state = INITIAL \/ state = AWAITING_MRT
        THEN base_prompt \o <<"\n", "\n", "Your duties: 1. guide the user to provide the MRT content ...">>
        ELSE IF state = AWAITING_REQUIREMENT
        THEN base_prompt \o <<"\n", "\n", "Your duties: 1. ask whether a software requirement is needed (optional) ...">>
        ELSE IF state = REVIEWING
        THEN base_prompt \o <<"\n", "\n", "Your duties: 1. review the MRT content against the checklist ...">>
        ELSE base_prompt \o <<"\n", "\n", "Review completed. If the user needs a new review, guide them to upload or paste.">>

\* _build_context_message with the test of lines 222-223 left out
_build_context_message_anyState(state, mrt, requirement) ==
    (IF mrt # NoEntry
     THEN <<"\n", "\n", "MRT content under review:", "\n">> \o mrt.content
     ELSE <<>>)
    \o (IF Truthy(requirement)
        THEN <<"\n", "\n", "Software requirement:", "\n">> \o requirement
        ELSE <<>>)

\* _build_context_message with lines 226-227 left out
_build_context_message_noMrt(state, mrt, requirement) ==
    IF state # REVIEWING THEN <<>>
    ELSE IF Truthy(requirement)
    THEN <<"\n", "\n", "Software requirement:", "\n">> \o requirement
    ELSE <<>>

\* ChatService._build_context_message; mrt is an MRTEntry or NoEntry
_build_context_message(state, mrt, requirement) ==
    IF state # REVIEWING THEN <<>>
    ELSE LET part_mrt ==
                 IF mrt # NoEntry
                 THEN <<"\n", "\n", "MRT content under review:", "\n">> \o mrt.content
                 ELSE <<>>
             part_req ==
                 IF Truthy(requirement)
                 THEN <<"\n", "\n", "Software requirement:", "\n">> \o requirement
                 ELSE <<>>
         IN  part_mrt \o part_req

\* messages[:n] in the place of messages[-n:]
LastN_firstN(messages, n) ==
    IF n >= Len(messages) THEN messages ELSE SubSeq(messages, 1, n)

\* messages[-n:]
LastN(messages, n) ==
    IF n = 0 \/ n >= Len(messages) THEN messages
    ELSE SubSeq(messages, Len(messages) - n + 1, Len(messages))

\* ChatService._trim_history
_trim_history(messages, max_turns) ==
    IF Len(messages) <= max_turns THEN messages
    ELSE IF messages # <<>> /\ messages[1].role = "system"
    THEN <<messages[1]>> \o LastN(messages, max_turns - 1)
    ELSE LastN(messages, max_turns)

----------------------------------------------------------------------------
(* ChatService._handle_files *)

MAX_CONTENT_SIZE == 200000

BINARY_FILE == <<"[BINARY_FILE:">>

\* s.split(":", 1)[0]
RECURSIVE SplitHead(_)
SplitHead(s) ==
    IF s = <<>> \/ Head(s) = ":" THEN <<>> ELSE <<Head(s)>> \o SplitHead(Tail(s))

\* dict.get(key, default): an absent key is None in the model
DictGet(value, default) == IF value = None THEN default ELSE value

\* the for loop of _handle_files from file i on; yields mrt_content_parts
RECURSIVE _handle_files_loop(_, _, _, _)
_handle_files_loop(files, i, mrt_content_parts, total_size) ==
    IF i > Len(files) THEN mrt_content_parts
    ELSE
    LET file_name == DictGet(files[i].name, <<"unnamed file">>)
        file_content == DictGet(files[i].content, <<>>)
        header == <<"[file: ">> \o file_name \o <<"]", "\n">>
    IN  IF file_content = <<>>
        THEN _handle_files_loop(files, i + 1, mrt_content_parts, total_size)
        ELSE IF startswith(file_content, BINARY_FILE)
        THEN LET file_ext == SplitHead(SubSeq(file_content, Len(BINARY_FILE) + 1,
                                              Len(file_content)))
                 part == header \o <<"[note: this is a ">> \o file_ext
                            \o <<" file. Binary files cannot be parsed; paste the content or use a .txt file.]",
                                 "\n">>
             IN  _handle_files_loop(files, i + 1, Append(mrt_content_parts, part),
                                    total_size + 100)
        ELSE
        LET size0 == Len(file_content)
            too_long == size0 > MAX_CONTENT_SIZE
            content1 ==
                IF too_long
                THEN Prefix(file_content, MAX_CONTENT_SIZE)
                        \o <<"\n", "\n", "[note: file content too long, truncated. Original size: ">>
                        \o IntToStr(size0) \o <<" ", "characters]">>
                ELSE file_content
            file_size == IF too_long THEN MAX_CONTENT_SIZE ELSE size0
        IN  IF total_size + file_size > MAX_CONTENT_SIZE
            THEN LET remaining == MAX_CONTENT_SIZE - total_size
                 IN  IF remaining > 0
                     THEN Append(mrt_content_parts,
                                 header \o Prefix(content1, remaining)
                                    \o <<"\n", "\n", "[note: remaining files left out because of the total size limit]">>)
                     ELSE mrt_content_parts
            ELSE _handle_files_loop(files, i + 1,
                                    Append(mrt_content_parts, header \o content1),
                                    total_size + file_size)

\* _handle_files reporting new MRT content whenever files were sent
_handle_files_flagsAnyFile(files) ==
    IF files = <<>> THEN [content |-> <<>>, has_new_mrt |-> FALSE]
    ELSE [content |-> strip(join(<<"\n", "\n">>, _handle_files_loop(files, 1, <<>>, 0))),
          has_new_mrt |-> TRUE]

\* ChatService._handle_files: (combined_content, has_new_mrt)
_handle_files(files) ==
    IF files = <<>> THEN [content |-> <<>>, has_new_mrt |-> FALSE]
    ELSE LET mrt_content_parts == _handle_files_loop(files, 1, <<>>, 0)
         IN  IF mrt_content_parts # <<>>
             THEN [content |-> strip(join(<<"\n", "\n">>, mrt_content_parts)),
                   has_new_mrt |-> TRUE]
             ELSE [content |-> <<>>, has_new_mrt |-> FALSE]

----------------------------------------------------------------------------
(* uuid4 *)

\* the MRT entry ids in use in the store
UsedMrtIds(ss) ==
    UNION {DOMAIN ss[s].mrts \cup {ss[s].current_mrt_id} : s \in DOMAIN ss}

\* uuid.uuid4().hex[:8]: a name in use nowhere; "exhausted" past the bound
FreshMrtId(used) ==
    LET free == {i \in 1..MaxMrtIds : MrtIdPool[i] \notin used}
    IN  IF free = {} THEN "exhausted"
        ELSE MrtIdPool[CHOOSE i \in free : \A j \in free : i <= j]

\* uuid.uuid4().hex: a name in use nowhere; "exhausted" when the pool is used up
FreshSid(ss) ==
    LET free == {i \in 1..Len(SidPool) : SidPool[i] \notin DOMAIN ss}
    IN  IF free = {} THEN "exhausted"
        ELSE SidPool[CHOOSE i \in free : \A j \in free : i <= j]

----------------------------------------------------------------------------
(* ChatService.chat_stream *)

\* lines 320-326 and 328-335 without the clear_mrt of lines 324 and 333
StoreIfNew_noClear(st, session_id, content) ==
    LET current_mrt == get_current_mrt(st.ss, session_id)
        id == FreshMrtId(st.used)
    IN  IF current_mrt = NoEntry \/ current_mrt.content # content
        THEN [ss |-> add_mrt(st.ss, session_id, id, content, None),
              used |-> st.used \cup {id},
              detected_new_mrt |-> TRUE]
        ELSE st

\* lines 320-326 and 328-335: store `content` as the session's MRT unless the
\* current entry already holds it; st is [ss, used, detected_new_mrt], used
\* being the entry ids uuid4 can no longer produce
StoreIfNew(st, session_id, content) ==
    LET current_mrt == get_current_mrt(st.ss, session_id)
        id == FreshMrtId(st.used)
    IN  IF current_mrt = NoEntry \/ current_mrt.content # content
        THEN LET cleared == IF current_mrt # NoEntry
                            THEN clear_mrt(st.ss, session_id)
                            ELSE st.ss
             IN  [ss |-> add_mrt(cleared, session_id, id, content, None),
                  used |-> st.used \cup {id},
                  detected_new_mrt |-> TRUE]
        ELSE st

\* lines 308-315: get or create the session
Resolve(ss, request) ==
    LET created == request.session_id = "None" \/ request.session_id \notin DOMAIN ss
        session_id == IF created THEN FreshSid(ss) ELSE request.session_id
        ss0 == IF created THEN create(ss, session_id) ELSE ss
    IN  [session_id |-> session_id,
         created |-> created,
         ss |-> ss0,
         before |-> ss0[session_id],
         current_state |-> ss0[session_id].state]

\* lines 319-326: the files' text becomes the session's MRT
StoreFileMrt(a, files) ==
    LET st0 == [ss |-> a.ss, used |-> UsedMrtIds(a.ss), detected_new_mrt |-> FALSE]
    IN  IF files.has_new_mrt THEN StoreIfNew(st0, a.session_id, files.content) ELSE st0

\* lines 328-335 without the strip() of line 329
StoreDirectMrt_unstripped(a, st1, request) ==
    IF Truthy(request.mrt_content)
    THEN StoreIfNew(st1, a.session_id, request.mrt_content)
    ELSE st1

\* lines 328-335 skipped on a turn whose files were stored as the MRT
StoreDirectMrt_filesFirst(a, st1, request) ==
    IF Truthy(request.mrt_content) /\ ~st1.detected_new_mrt
    THEN StoreIfNew(st1, a.session_id, strip(request.mrt_content))
    ELSE st1

\* lines 328-335: request.mrt_content becomes the session's MRT
StoreDirectMrt(a, st1, request) ==
    IF Truthy(request.mrt_content)
    THEN StoreIfNew(st1, a.session_id, strip(request.mrt_content))
    ELSE st1

\* lines 337-338 writing only while no requirement is stored
StoreRequirement_onlyIfUnset(a, st2, request) ==
    IF /\ Truthy(request.software_requirement)
       /\ st2.ss[a.session_id].software_requirement = None
    THEN [st2.ss EXCEPT ![a.session_id].software_requirement =
                            strip(request.software_requirement)]
    ELSE st2.ss

\* lines 337-338: request.software_requirement overwrites the stored one
StoreRequirement(a, st2, request) ==
    IF Truthy(request.software_requirement)
    THEN [st2.ss EXCEPT ![a.session_id].software_requirement =
                            strip(request.software_requirement)]
    ELSE st2.ss

\* lines 340-350: read the session's data, determine and write the state
Decide(a, st2, ss3) ==
    LET has_mrt_ == has_mrt(ss3, a.session_id)
        has_req == has_requirement(ss3, a.session_id)
        next_state == _determine_next_state(ss3[a.session_id], has_mrt_, has_req,
                                            st2.detected_new_mrt)
    IN  [has_mrt |-> has_mrt_,
         has_req |-> has_req,
         current_mrt |-> get_current_mrt(ss3, a.session_id),
         requirement |-> ss3[a.session_id].software_requirement,
         next_state |-> next_state,
         sessions |-> IF next_state # a.current_state
                      THEN set_state(ss3, a.session_id, next_state)
                      ELSE ss3]

\* line 385 with the generator called whenever there are messages
warrants_generation_anyState(messages, next_state) ==
    messages # <<>>

\* line 385: the test that guards the call of the text generator
warrants_generation(messages, next_state) ==
    messages # <<>> /\ next_state \in {REVIEWING, AWAITING_REQUIREMENT}

\* lines 352-401 with the guidance of line 368 yielded only for a new MRT
Respond_onlyOnDetection(a, files, st2, d, request) ==
    LET user_message == IF Truthy(request.message) THEN request.message ELSE <<>>
        messages0 == _trim_history(request.messages, 10)
        context_message ==
            _build_context_message(d.next_state, d.current_mrt, d.requirement)
        welcome == /\ d.next_state = INITIAL
                   /\ user_message = <<>>
                   /\ ~files.has_new_mrt
                   /\ ~Truthy(request.mrt_content)
        guidance == _get_guidance_message(d.next_state)
        guidance_chunks ==
            IF /\ guidance # None
               /\ st2.detected_new_mrt
               /\ d.next_state \in {AWAITING_MRT, AWAITING_REQUIREMENT}
            THEN <<guidance \o <<"\n">>>>
            ELSE <<>>
        default_msg == <<"Please help me review these files">>
        messages ==
            IF user_message # <<>>
            THEN Append(messages0, [role |-> "user",
                                    content |-> user_message \o context_message])
            ELSE IF files.has_new_mrt
            THEN Append(messages0, [role |-> "user",
                                    content |-> default_msg \o context_message])
            ELSE messages0
        llm_called == ~welcome /\ warrants_generation(messages, d.next_state)
        fallback_chunks ==
            IF ~llm_called /\ messages = <<>> /\ guidance = None
            THEN <<<<"Hello! I can help you review MRT content. Upload a file or type content to start.">>>>
            ELSE <<>>
    IN  [chunks |-> IF welcome THEN <<_get_welcome_message>>
                    ELSE guidance_chunks \o fallback_chunks,
         llm_called |-> llm_called,
         messages |-> IF welcome THEN messages0 ELSE messages,
         system_prompt |-> IF welcome THEN None
                           ELSE _build_system_prompt(d.next_state, d.requirement)]

\* lines 352-401 up to the call of the text generator: what the turn yields
\* itself (chunks), whether the generator is called and with which messages
Respond(a, files, st2, d, request) ==
    LET user_message == IF Truthy(request.message) THEN request.message ELSE <<>>
        messages0 == _trim_history(request.messages, 10)
        context_message ==
            _build_context_message(d.next_state, d.current_mrt, d.requirement)
        welcome == /\ d.next_state = INITIAL
                   /\ user_message = <<>>
                   /\ ~files.has_new_mrt
                   /\ ~Truthy(request.mrt_content)
        guidance == _get_guidance_message(d.next_state)
        guidance_chunks ==
            IF /\ guidance # None
               /\ (st2.detected_new_mrt \/ d.next_state # a.current_state)
               /\ d.next_state \in {AWAITING_MRT, AWAITING_REQUIREMENT}
            THEN <<guidance \o <<"\n">>>>
            ELSE <<>>
        default_msg == <<"Please help me review these files">>
        messages ==
            IF user_message # <<>>
            THEN Append(messages0, [role |-> "user",
                                    content |-> user_message \o context_message])
            ELSE IF files.has_new_mrt
            THEN Append(messages0, [role |-> "user",
                                    content |-> default_msg \o context_message])
            ELSE messages0
        llm_called == ~welcome /\ warrants_generation(messages, d.next_state)
        fallback_chunks ==
            IF ~llm_called /\ messages = <<>> /\ guidance = None
            THEN <<<<"Hello! I can help you review MRT content. Upload a file or type content to start.">>>>
            ELSE <<>>
    IN  [chunks |-> IF welcome THEN <<_get_welcome_message>>
                    ELSE guidance_chunks \o fallback_chunks,
         llm_called |-> llm_called,
         messages |-> IF welcome THEN messages0 ELSE messages,
         system_prompt |-> IF welcome THEN None
                           ELSE _build_system_prompt(d.next_state, d.requirement)]

\* ChatService.chat_stream on `request`, up to the call of the text generator.
\* The turn's record keeps the request, the locals of the call, `before` (the
\* session as lines 308-313 found or created it) and what goes back to the
\* caller: chat_stream is a generator of text chunks, so no session id is
\* returned.  Nothing has been yielded yet (phase "static", no events).
chat_stream(request, resubmit) ==
    \E a \in {Resolve(sessions, request)} :
    \E files \in {_handle_files(request.files)} :
    \E st1 \in {StoreFileMrt(a, files)} :
    \E st2 \in {StoreDirectMrt(a, st1, request)} :
    \E ss3 \in {StoreRequirement(a, st2, request)} :
    \E d \in {Decide(a, st2, ss3)} :
    \E out \in {Respond(a, files, st2, d, request)} :
        /\ a.session_id # "exhausted"
        /\ "exhausted" \notin st2.used
        /\ sessions' = d.sessions
        /\ turn' = [op |-> "chat_stream",
                    request |-> request,
                    session_id |-> a.session_id,
                    created |-> a.created,
                    before |-> a.before,
                    resubmit |-> resubmit,
                    returned_session_id |-> "None",
                    current_state |-> a.current_state,
                    has_file_mrt |-> files.has_new_mrt,
                    file_content |-> files.content,
                    detected_new_mrt |-> st2.detected_new_mrt,
                    has_mrt |-> d.has_mrt,
                    has_req |-> d.has_req,
                    next_state |-> d.next_state,
                    chunks |-> out.chunks,
                    llm_called |-> out.llm_called,
                    messages |-> out.messages,
                    system_prompt |-> out.system_prompt,
                    phase |-> "static",
                    produced |-> <<>>,
                    events |-> <<>>,
                    failed |-> FALSE]

----------------------------------------------------------------------------
(* Requests *)

SessionIdsIn == {"None", "unknown"} \cup {SidPool[i] : i \in 1..MaxSessions}

MessagesIn == {None, <<"h", "i">>}

MrtContentsIn == {None, <<" ">>, <<" ", "a">>, <<"b">>}

RequirementsIn == {None, <<" ">>, <<"r">>}

TextFile == [name |-> <<"f">>, content |-> <<"a">>]
EmptyFile == [name |-> <<"f">>, content |-> <<>>]
NoContentFile == [name |-> <<"g">>, content |-> None]
BinaryFile == [name |-> None,
               content |-> BINARY_FILE \o <<".pdf", ":", "QUJD", "]">>]

\* <<>> stands for files = None and files = []: `if not files` takes both
FilesIn == {<<>>, <<EmptyFile, NoContentFile>>, <<TextFile>>, <<EmptyFile, BinaryFile>>}

\* <<>> stands for messages = None and messages = []: `request.messages or []`
HistoriesIn == {<<>>}

Requests ==
    [session_id : SessionIdsIn,
     message : MessagesIn,
     mrt_content : MrtContentsIn,
     software_requirement : RequirementsIn,
     files : FilesIn,
     messages : HistoriesIn]

----------------------------------------------------------------------------
(* The service: one turn at a time *)

Idle == [op |-> "idle"]

\* the step leaves at most `limit` sessions in the store
SessionsWithin(limit) == Cardinality(DOMAIN sessions') <= limit

Init ==
    /\ sessions = <<>>
    /\ turn = Idle

\* one call of ChatService.chat_stream, run to the end of its session updates
ChatStream ==
    /\ turn.op = "idle"
    /\ \E request \in Requests :
        chat_stream(request, FALSE) /\ SessionsWithin(MaxSessions)

\* the caller has read the stream to its end (main.py generate())
\* the positions of a process that runs the two-state agent of
\* services/chat_agent.py instead of this service
AgentOps == {"ready", "agent_create", "append_history", "agent_add_mrt", "agent_chat"}

EndTurn ==
    /\ turn.op \notin {"idle", "concurrent"} \cup AgentOps
    /\ turn' = Idle
    /\ UNCHANGED sessions

Next == ChatStream \/ EndTurn

Spec == Init /\ [][Next]_vars

----------------------------------------------------------------------------
(* The same session sent the same MRT input again *)

\* the caller reads the stream to its end and sends the next request on the
\* same session with the files and mrt_content of the turn just served
Resubmit ==
    /\ turn.op = "chat_stream"
    /\ \E request \in Requests :
        /\ request.session_id = turn.session_id
        /\ request.files = turn.request.files
        /\ request.mrt_content = turn.request.mrt_content
        /\ chat_stream(request, TRUE)

NextRepeat == ChatStream \/ EndTurn \/ Resubmit

SpecRepeat == Init /\ [][NextRepeat]_vars

----------------------------------------------------------------------------
(* The SessionStore called directly *)

StoreContentsIn == {<<>>, <<"a">>}

StoreSidsIn == {"unknown"} \cup {SidPool[i] : i \in 1..MaxSessions}

\* SessionStore.create
Create ==
    /\ turn.op = "idle"
    /\ sessions' = create(sessions, FreshSid(sessions))
    /\ SessionsWithin(MaxSessions)
    /\ turn' = [op |-> "create", session_id |-> FreshSid(sessions), raised |-> "None"]

\* SessionStore.add_mrt: KeyError on an unknown session
AddMrt ==
    /\ turn.op = "idle"
    /\ \E session_id \in StoreSidsIn, content \in StoreContentsIn :
        IF session_id \notin DOMAIN sessions
        THEN /\ turn' = [op |-> "add_mrt", session_id |-> session_id,
                         raised |-> "KeyError"]
             /\ sessions' = on_not_found(sessions, session_id)
        ELSE /\ FreshMrtId(UsedMrtIds(sessions)) # "exhausted"
             /\ sessions' = add_mrt(sessions, session_id,
                                    FreshMrtId(UsedMrtIds(sessions)), content, None)
             /\ turn' = [op |-> "add_mrt", session_id |-> session_id,
                         raised |-> "None"]

\* SessionStore.clear_mrt: KeyError on an unknown session
ClearMrt ==
    /\ turn.op = "idle"
    /\ \E session_id \in StoreSidsIn :
        IF session_id \notin DOMAIN sessions
        THEN /\ turn' = [op |-> "clear_mrt", session_id |-> session_id,
                         raised |-> "KeyError"]
             /\ sessions' = on_not_found(sessions, session_id)
        ELSE /\ sessions' = clear_mrt(sessions, session_id)
             /\ turn' = [op |-> "clear_mrt", session_id |-> session_id,
                         raised |-> "None",
                         had_current |-> sessions[session_id].current_mrt_id # "None"]

\* SessionStore.set_state: KeyError on an unknown session
SetState ==
    /\ turn.op = "idle"
    /\ \E session_id \in StoreSidsIn, state \in ConversationState :
        IF session_id \notin DOMAIN sessions
        THEN /\ turn' = [op |-> "set_state", session_id |-> session_id,
                         raised |-> "KeyError"]
             /\ sessions' = on_not_found(sessions, session_id)
        ELSE /\ sessions' = set_state(sessions, session_id, state)
             /\ turn' = [op |-> "set_state", session_id |-> session_id,
                         raised |-> "None"]

\* the turns the store is exercised with next to the direct calls
StoreRequests ==
    {r \in Requests : /\ r.message = <<"h", "i">>
                      /\ r.software_requirement = None
                      /\ r.mrt_content \in {None, <<"b">>}
                      /\ r.files = <<>>}

StoreChatStream ==
    /\ turn.op = "idle"
    /\ \E request \in StoreRequests :
        chat_stream(request, FALSE) /\ SessionsWithin(MaxSessions)

NextStore ==
    Create \/ AddMrt \/ ClearMrt \/ SetState \/ StoreChatStream \/ EndTurn

SpecStore == Init /\ [][NextStore]_vars

----------------------------------------------------------------------------
(* _determine_next_state on every input *)

OneEntry == [m \in {"m1"} |-> MRTEntry("m1", <<"a">>, None)]

\* sessions as the store keeps them: without entries, or with m1 current
SessionsIn ==
    {s \in [state : ConversationState,
            mrts : {<<>>, OneEntry},
            current_mrt_id : {"None", "m1"},
            software_requirement : {None, <<"r">>}] :
        (s.mrts = <<>>) <=> (s.current_mrt_id = "None")}

InitTable ==
    /\ sessions \in [{"s1"} -> SessionsIn]
    /\ turn \in [op : {"args"}, has_mrt : BOOLEAN, has_req : BOOLEAN,
                 detected_new_mrt : BOOLEAN]

\* one call of ChatService._determine_next_state
DetermineNextState ==
    /\ turn.op = "args"
    /\ turn' = [op |-> "_determine_next_state",
                has_mrt |-> turn.has_mrt,
                has_req |-> turn.has_req,
                detected_new_mrt |-> turn.detected_new_mrt,
                result |-> _determine_next_state(sessions["s1"], turn.has_mrt,
                                                 turn.has_req, turn.detected_new_mrt)]
    /\ UNCHANGED sessions

NextTable == DetermineNextState

SpecTable == InitTable /\ [][NextTable]_vars

----------------------------------------------------------------------------
(* Streaming: the chunks of a turn, one at a time *)

\* the most chunks the text generator produces in one turn
MaxChunks == 2

\* chunks the text generator can produce
ChunksIn == {<<"x">>, <<"\n", "\"">>}

\* str(exc) of the failures the text generator can raise
ErrorsIn ==
    {<<"Connection reset by peer">>, <<"Read ", "timed out">>, <<"Timeout">>,
     <<"Connection", " refused">>, <<"boom">>}

\* literal in text, for the literals the handler looks for
Contains(text, literal) == \E i \in 1..Len(text) : text[i] = literal

\* str.lower on the phrases of ErrorsIn and on the capital letters in use
lower(text) ==
    [i \in 1..Len(text) |->
        CASE text[i] = "Timeout" -> "timeout"
          [] text[i] = "Connection" -> "connection"
          [] text[i] = "Connection reset by peer" -> "connection reset by peer"
          [] text[i] = "Read " -> "read "
          [] text[i] = "A" -> "a"
          [] text[i] = "B" -> "b"
          [] OTHER -> text[i]]

\* lines 390-398: the message that explains the failure
error_msg(error_str) ==
    IF Contains(error_str, "Connection reset")
       \/ Contains(error_str, "Connection reset by peer")
    THEN <<"Connection reset: the file may be too large or the network unstable. ...">>
    ELSE IF Contains(lower(error_str), "timeout")
            \/ Contains(lower(error_str), "timed out")
    THEN <<"Request timed out: processing took too long. ...">>
    ELSE IF Contains(error_str, "Connection")
    THEN <<"Connection error: cannot reach the AI service. ...">>
    ELSE <<"Error while handling the request: ">> \o error_str

\* json.dumps of a str, without the enclosing quotes
RECURSIVE json_dumps(_)
json_dumps(text) ==
    IF text = <<>> THEN <<>>
    ELSE LET c == Head(text)
             enc == CASE c = "\"" -> <<"\\", "\"">>
                      [] c = "\\" -> <<"\\", "\\">>
                      [] c = "\n" -> <<"\\", "n">>
                      [] OTHER -> <<c>>
         IN  enc \o json_dumps(Tail(text))

\* main.py 159-160: the event that carries one chunk
sse(chunk) == [type |-> "chunk", content |-> json_dumps(chunk)]

\* line 388 without a chunk that repeats the one before it
forward_skipsRepeat(events, chunk) ==
    IF events # <<>> /\ events[Len(events)] = sse(chunk) THEN events
    ELSE Append(events, sse(chunk))

\* chat.py 388 and main.py 157-160: a chunk is yielded and sent as an event
forward(events, chunk) == Append(events, sse(chunk))

\* lines 389-399 with failures other than connection trouble raised again:
\* main.py 166-168 turns them into an error event
on_llm_exception_reraises(events, error_str) ==
    IF Contains(error_str, "Connection")
    THEN forward(events, error_msg(error_str))
    ELSE Append(events, [type |-> "error",
                         content |-> json_dumps(<<"Error while handling the request: ">>
                                                   \o error_str)])

\* lines 389-399: a failure of the text generator becomes one chunk
on_llm_exception(events, error_str) == forward(events, error_msg(error_str))

\* lines 352-401 with the session marked COMPLETED once the loop over the
\* text generator is left
session_after_yield_completes(ss, t) ==
    IF t.phase = "returned" THEN set_state(ss, t.session_id, COMPLETED) ELSE ss

\* lines 352-401 call no store method and assign nothing to the session
session_after_yield(ss, t) == ss

\* where the generator chat_stream stands: yielding its own chunks
\* ("static"), inside the loop over the text generator ("llm"), past its
\* last statement ("returned"), read to the end by main.py ("done"), or
\* closed by the caller ("abandoned")
Phase(t) ==
    IF t.phase = "static" /\ Len(t.events) = Len(t.chunks)
    THEN (IF t.llm_called THEN "llm" ELSE "returned")
    ELSE t.phase

\* lines 363, 370, 401: chat_stream yields the next chunk of its own
YieldStatic ==
    /\ turn.op = "chat_stream"
    /\ Phase(turn) = "static"
    /\ turn' = [turn EXCEPT
                   !.events = forward(@, turn.chunks[Len(turn.events) + 1])]
    /\ sessions' = session_after_yield(sessions, turn')

\* lines 387-388: the text generator produces a chunk, chat_stream yields it
LlmChunk ==
    /\ turn.op = "chat_stream"
    /\ Phase(turn) = "llm"
    /\ Len(turn.produced) < MaxChunks
    /\ \E chunk \in ChunksIn :
        turn' = [turn EXCEPT !.phase = "llm",
                             !.produced = Append(@, chunk),
                             !.events = forward(@, chunk)]
    /\ sessions' = session_after_yield(sessions, turn')

\* line 387: the text generator is exhausted
LlmEnd ==
    /\ turn.op = "chat_stream"
    /\ Phase(turn) = "llm"
    /\ turn' = [turn EXCEPT !.phase = "returned"]
    /\ sessions' = session_after_yield(sessions, turn')

\* lines 389-399: the text generator raises, before or after some chunks
LlmFail ==
    /\ turn.op = "chat_stream"
    /\ Phase(turn) = "llm"
    /\ \E error_str \in ErrorsIn :
        turn' = [turn EXCEPT !.phase = "returned",
                             !.failed = TRUE,
                             !.events = on_llm_exception(@, error_str)]
    /\ sessions' = session_after_yield(sessions, turn')

\* main.py 161-162 left out: the stream ends without a done event
on_exhausted_silent(events) == events

\* main.py 161-162: the done event that follows the last chunk
on_exhausted(events) == Append(events, [type |-> "done", content |-> <<>>])

\* main.py 166-168: an exception that leaves chat_stream becomes the error
\* event (str(exc) of anything but a DashScopeError gets the prefix)
on_exception(events, error_str) ==
    Append(events, [type |-> "error",
                    content |-> json_dumps(<<"Error while handling the request: ">>
                                              \o error_str)])

\* main.py 161-162: chat_stream is exhausted, the done event is sent
Finish ==
    /\ turn.op = "chat_stream"
    /\ Phase(turn) = "returned"
    /\ turn' = [turn EXCEPT !.phase = "done",
                            !.events = on_exhausted(@)]
    /\ sessions' = session_after_yield(sessions, turn')

\* the caller goes away while chat_stream is suspended at a yield
Abandon ==
    /\ turn.op = "chat_stream"
    /\ Phase(turn) \in {"static", "llm"}
    /\ turn.events # <<>>
    /\ turn' = [turn EXCEPT !.phase = "abandoned"]
    /\ sessions' = session_after_yield(sessions, turn')

\* the stream is over, the next request can come
EndStream ==
    /\ turn.op = "chat_stream"
    /\ turn.phase \in {"done", "abandoned", "raised"}
    /\ turn' = Idle
    /\ UNCHANGED sessions

StreamRequests ==
    [session_id : SessionIdsIn,
     message : MessagesIn,
     mrt_content : {None, <<"b">>},
     software_requirement : {None},
     files : {<<>>},
     messages : {<<>>}]

ChatStreamBegin ==
    /\ turn.op = "idle"
    /\ \E request \in StreamRequests :
        chat_stream(request, FALSE) /\ SessionsWithin(MaxSessions)

NextStream ==
    \/ ChatStreamBegin
    \/ YieldStatic
    \/ LlmChunk
    \/ LlmEnd
    \/ LlmFail
    \/ Finish
    \/ Abandon
    \/ EndStream

SpecStream == Init /\ [][NextStream]_vars

\* chat_stream stands at line 382: not on the welcome path (which returns at
\* line 364), its guidance chunk yielded, the fallback chunk of line 401 not
at_system_prompt(t) ==
    /\ t.phase = "static"
    /\ t.system_prompt # None
    /\ IF /\ t.messages = <<>>
          /\ ~t.llm_called
          /\ _get_guidance_message(t.next_state) = None
       THEN t.events = <<>>
       ELSE Len(t.events) = Len(t.chunks)

\* str(exc) of what get_config and default_checklist can raise once the
\* configuration was reloaded from a file that cannot be used
ConfigErrorsIn == {<<"Configuration file not found: ", "config.yaml">>}

\* line 382: _build_system_prompt raises outside the try of lines 386-399;
\* the exception leaves chat_stream and main.py sends the error event
PromptFail ==
    /\ turn.op = "chat_stream"
    /\ at_system_prompt(turn)
    /\ \E error_str \in ConfigErrorsIn :
        turn' = [turn EXCEPT !.phase = "raised",
                             !.events = on_exception(@, error_str)]
    /\ sessions' = session_after_yield(sessions, turn')

NextEvents == NextStream \/ PromptFail

SpecEvents == Init /\ [][NextEvents]_vars

----------------------------------------------------------------------------
(* Turns that bring the conversation so far with them *)

AssistantTurn == [role |-> "assistant", content |-> <<"y">>]

SystemTurn == [role |-> "system", content |-> <<"z">>]

UserTurn == [role |-> "user", content |-> <<"u">>]

HistoriesWide == {<<>>, <<AssistantTurn>>, <<SystemTurn, UserTurn, AssistantTurn>>}

HistoryRequests ==
    [session_id : SessionIdsIn,
     message : MessagesIn,
     mrt_content : {None, <<"b">>},
     software_requirement : {None, <<"r">>},
     files : {<<>>, <<TextFile>>},
     messages : HistoriesWide]

ChatStreamHistory ==
    /\ turn.op = "idle"
    /\ \E request \in HistoryRequests :
        chat_stream(request, FALSE) /\ SessionsWithin(MaxSessions)

NextHistory == ChatStreamHistory \/ EndTurn

SpecHistory == Init /\ [][NextHistory]_vars

----------------------------------------------------------------------------
(* _trim_history on every history *)

\* the longest history tried
MaxHistory == 4

\* the largest max_turns tried
MaxTurnsLimit == 3

TrimHistoriesIn ==
    UNION {[1..k -> {SystemTurn, UserTurn, AssistantTurn}] : k \in 0..MaxHistory}

InitTrim ==
    /\ sessions = <<>>
    /\ turn \in [op : {"trim_args"}, messages : TrimHistoriesIn,
                 max_turns : 1..MaxTurnsLimit]

\* one call of ChatService._trim_history
TrimHistory ==
    /\ turn.op = "trim_args"
    /\ turn' = [op |-> "_trim_history",
                messages |-> turn.messages,
                max_turns |-> turn.max_turns,
                result |-> _trim_history(turn.messages, turn.max_turns)]
    /\ UNCHANGED sessions

NextTrim == TrimHistory

SpecTrim == InitTrim /\ [][NextTrim]_vars

----------------------------------------------------------------------------
(* The read operations of the SessionStore, called directly *)

\* mrt.content.strip() raises AttributeError when the content is None;
\* `req is not None and ...` never reaches strip() on None
predicate_raises(ss, session_id) ==
    /\ get_current_mrt(ss, session_id) # NoEntry
    /\ get_current_mrt(ss, session_id).content = None

\* SessionStore.add_mrt with content that is white space only
AddBlankMrt ==
    /\ turn.op = "idle"
    /\ \E session_id \in DOMAIN sessions :
        /\ FreshMrtId(UsedMrtIds(sessions)) # "exhausted"
        /\ sessions' = add_mrt(sessions, session_id,
                               FreshMrtId(UsedMrtIds(sessions)), <<" ">>, None)
        /\ turn' = [op |-> "add_mrt", session_id |-> session_id,
                    raised |-> "None"]

\* get, get_current_mrt, has_mrt, has_requirement and can_start_review
\* called one after the other on the same id
Query ==
    /\ turn.op = "idle"
    /\ \E session_id \in StoreSidsIn :
        turn' = [op |-> "query", session_id |-> session_id,
                 raised |-> IF predicate_raises(sessions, session_id)
                            THEN "AttributeError" ELSE "None",
                 get |-> get(sessions, session_id),
                 get_current_mrt |-> get_current_mrt(sessions, session_id),
                 has_mrt |-> has_mrt(sessions, session_id),
                 has_requirement |-> has_requirement(sessions, session_id),
                 can_start_review |-> can_start_review(sessions, session_id)]
    /\ UNCHANGED sessions

QueryRequests ==
    {r \in Requests : /\ r.message = <<"h", "i">>
                      /\ r.software_requirement \in {None, <<"r">>}
                      /\ r.mrt_content \in {None, <<"b">>}
                      /\ r.files = <<>>}

QueryChatStream ==
    /\ turn.op = "idle"
    /\ \E request \in QueryRequests :
        chat_stream(request, FALSE) /\ SessionsWithin(MaxSessions)

NextQuery ==
    \/ Create \/ AddBlankMrt \/ ClearMrt \/ SetState
    \/ QueryChatStream \/ Query \/ EndTurn

SpecQuery == Init /\ [][NextQuery]_vars

----------------------------------------------------------------------------
(* The two-state agent (backend/app/services/chat_agent.py): its own        *)
(* SessionStore, whose sessions carry the history, and MRTReviewAgent.chat.  *)
(* A process holds one store or the other; `turn` is Ready while the agent   *)
(* waits for a call.                                                         *)

READY == "ready"

\* the session dict of chat_agent.SessionStore.create
NewAgentSession ==
    [state |-> READY,
     history |-> <<>>,
     mrts |-> <<>>,
     current_mrt_id |-> "None",
     checklist |-> "None"]

\* chat_agent.SessionStore.create, session_id being the id uuid4 produced
agent_create(ss, session_id) ==
    [s \in DOMAIN ss \cup {session_id} |->
        IF s = session_id THEN NewAgentSession ELSE ss[s]]

\* ChatTurn as the store keeps it
HistoryEntry(role, content) == [role |-> role, content |-> content]

\* chat_agent.SessionStore.append_history on a known session
append_history(ss, session_id, role, content) ==
    [ss EXCEPT ![session_id].history = Append(@, HistoryEntry(role, content))]

\* chat_agent.SessionStore.add_mrt on a known session
agent_add_mrt(ss, session_id, id, content, name) ==
    LET mrt_entry == MRTEntry(id, content, name)
        old == ss[session_id].mrts
    IN  [ss EXCEPT ![session_id].mrts =
                       [k \in DOMAIN old \cup {id} |->
                           IF k = id THEN mrt_entry ELSE old[k]],
                   ![session_id].current_mrt_id = id]

\* chat_agent.SessionStore.get_current_mrt
agent_get_current_mrt(ss, session_id) ==
    IF session_id \notin DOMAIN ss THEN NoEntry
    ELSE LET session == ss[session_id]
             current_id == session.current_mrt_id
         IN  IF current_id = "None" THEN NoEntry
             ELSE IF current_id \in DOMAIN session.mrts
                  THEN session.mrts[current_id]
                  ELSE NoEntry

Ready == [op |-> "ready"]

MaxAgentHistory == 2

RolesIn == {"user", "assistant"}

AgentContentsIn == {<<"a">>}

\* chat_agent.SessionStore.create
AgentCreate ==
    /\ turn = Ready
    /\ sessions' = agent_create(sessions, FreshSid(sessions))
    /\ SessionsWithin(MaxSessions)
    /\ turn' = [op |-> "agent_create", session_id |-> FreshSid(sessions),
                raised |-> "None"]

\* chat_agent.SessionStore.append_history: KeyError on an unknown session
AppendHistory ==
    /\ turn = Ready
    /\ \E session_id \in StoreSidsIn, role \in RolesIn, content \in AgentContentsIn :
        IF session_id \notin DOMAIN sessions
        THEN /\ turn' = [op |-> "append_history", session_id |-> session_id,
                         raised |-> "KeyError"]
             /\ sessions' = on_not_found(sessions, session_id)
        ELSE /\ Len(sessions[session_id].history) < MaxAgentHistory
             /\ sessions' = append_history(sessions, session_id, role, content)
             /\ turn' = [op |-> "append_history", session_id |-> session_id,
                         raised |-> "None"]

\* chat_agent.SessionStore.add_mrt: KeyError on an unknown session
AgentAddMrt ==
    /\ turn = Ready
    /\ \E session_id \in StoreSidsIn, content \in AgentContentsIn :
        IF session_id \notin DOMAIN sessions
        THEN /\ turn' = [op |-> "agent_add_mrt", session_id |-> session_id,
                         raised |-> "KeyError"]
             /\ sessions' = on_not_found(sessions, session_id)
        ELSE /\ FreshMrtId(UsedMrtIds(sessions)) # "exhausted"
             /\ sessions' = agent_add_mrt(sessions, session_id,
                                          FreshMrtId(UsedMrtIds(sessions)),
                                          content, None)
             /\ turn' = [op |-> "agent_add_mrt", session_id |-> session_id,
                         raised |-> "None"]

\* the call returned or raised; the agent waits for the next one
AgentReturn ==
    /\ turn.op \in AgentOps \ {"ready"}
    /\ turn' = Ready
    /\ UNCHANGED sessions

NextAgentStore == AgentCreate \/ AppendHistory \/ AgentAddMrt \/ AgentReturn

AGENT_MAX_CONTENT_SIZE == 50000

\* chat lines 112-130, the for loop from file i on: the MRT parts and the
\* user message, which becomes the default one once a file has been taken
RECURSIVE agent_files_loop(_, _, _, _, _)
agent_files_loop(files, i, mrt_content_parts, total_size, user_message) ==
    IF i > Len(files)
    THEN [mrt_content_parts |-> mrt_content_parts, user_message |-> user_message]
    ELSE
    LET file_name == DictGet(files[i].name, <<"unnamed file">>)
        file_content == DictGet(files[i].content, <<>>)
        header == <<"[file: ">> \o file_name \o <<"]", "\n">>
        size0 == Len(file_content)
        too_long == size0 > AGENT_MAX_CONTENT_SIZE
        content1 ==
            IF too_long
            THEN Prefix(file_content, AGENT_MAX_CONTENT_SIZE)
                    \o <<"\n", "\n", "[note: file content too long, truncated. Original size: ">>
                    \o IntToStr(size0) \o <<" ", "characters]">>
            ELSE file_content
        file_size == IF too_long THEN AGENT_MAX_CONTENT_SIZE ELSE size0
    IN  IF file_content = <<>>
        THEN agent_files_loop(files, i + 1, mrt_content_parts, total_size, user_message)
        ELSE IF total_size + file_size > AGENT_MAX_CONTENT_SIZE
        THEN [mrt_content_parts |->
                  Append(mrt_content_parts,
                         header \o Prefix(content1, AGENT_MAX_CONTENT_SIZE - total_size)
                            \o <<"\n", "\n", "[note: remaining files left out because of the total size limit]">>),
              user_message |-> user_message]
        ELSE agent_files_loop(files, i + 1,
                              Append(mrt_content_parts, header \o content1),
                              total_size + file_size,
                              IF user_message = <<>>
                              THEN <<"Please help me review these files">>
                              ELSE user_message)

\* chat line 159: the last six turns of the history
agent_window(history) ==
    IF Len(history) > 6 THEN LastN(history, 6) ELSE history

\* chat lines 150-152 and 164-169: the message sent to the chatbot
full_user_message(user_message, current_mrt) ==
    IF current_mrt # NoEntry
    THEN user_message \o <<"\n", "\n", "MRT under review:", "\n">>
            \o current_mrt.content \o <<"\n">>
    ELSE user_message

\* chat lines 164-170 with the user's turn left out of the history
record_user_forgets(ss, session_id, user_message) == ss

\* chat lines 164-170: the user's turn goes into the history, context left out
record_user(ss, session_id, user_message) ==
    IF user_message # <<>>
    THEN append_history(ss, session_id, "user", user_message)
    ELSE ss

\* what chatbot_client.chat does: it returns the reply or it raises
AgentRepliesIn == {[raised |-> FALSE, text |-> <<"ok">>]}
AgentFailuresIn ==
    {[raised |-> TRUE, text |-> e] : e \in {<<"boom">>}}

\* chat lines 174-190: the reply, or the explanation of the failure, is the
\* turn's one reply and one assistant turn of the history
record_reply(ss, session_id, outcome) ==
    append_history(ss, session_id, "assistant",
                   IF outcome.raised THEN error_msg(outcome.text) ELSE outcome.text)

\* the turns of one conversation: the first without an id, the rest with it
AgentRequests ==
    [session_id : {"None", SidPool[1]},
     message : MessagesIn,
     mrt_content : {None, <<"b">>},
     files : {<<>>, <<EmptyFile>>, <<TextFile>>}]

\* MRTReviewAgent.chat on `request`, the chatbot answering with `outcome`
agent_chat(request, outcome) ==
    \E created \in {request.session_id = "None"
                        \/ request.session_id \notin DOMAIN sessions} :
    \E session_id \in {IF created THEN FreshSid(sessions) ELSE request.session_id} :
    \E ss0 \in {IF created THEN agent_create(sessions, session_id) ELSE sessions} :
    \E fl \in {agent_files_loop(request.files, 1, <<>>, 0,
                                 IF Truthy(request.message) THEN request.message
                                 ELSE <<>>)} :
    \E id1 \in {FreshMrtId(UsedMrtIds(ss0))} :
    \E ss1 \in {IF fl.mrt_content_parts # <<>> /\ id1 # "exhausted"
                 THEN agent_add_mrt(ss0, session_id, id1,
                                    strip(join(<<"\n", "\n">>, fl.mrt_content_parts)),
                                    None)
                 ELSE ss0} :
    \E id2 \in {FreshMrtId(UsedMrtIds(ss1) \cup {id1})} :
    \E ss2 \in {IF Truthy(request.mrt_content) /\ id2 # "exhausted"
                 THEN agent_add_mrt(ss1, session_id, id2,
                                    strip(request.mrt_content), None)
                 ELSE ss1} :
    \E current_mrt \in {agent_get_current_mrt(ss2, session_id)} :
    \E messages \in
        {[i \in 1..Len(agent_window(ss2[session_id].history)) |->
              agent_window(ss2[session_id].history)[i]]
            \o (IF fl.user_message # <<>>
                THEN <<HistoryEntry("user",
                                    full_user_message(fl.user_message, current_mrt))>>
                ELSE <<>>)} :
    \E ss3 \in {record_user(ss2, session_id, fl.user_message)} :
        /\ session_id # "exhausted"
        /\ fl.mrt_content_parts # <<>> => id1 # "exhausted"
        /\ Truthy(request.mrt_content) => id2 # "exhausted"
        /\ Len(ss0[session_id].history) <= MaxAgentHistory
        /\ sessions' = record_reply(ss3, session_id, outcome)
        /\ turn' = [op |-> "agent_chat",
                    request |-> request,
                    session_id |-> session_id,
                    created |-> created,
                    before |-> ss0[session_id],
                    user_message |-> fl.user_message,
                    messages |-> messages,
                    outcome |-> outcome,
                    raised |-> "None"]

AgentChat ==
    /\ turn = Ready
    /\ \E request \in AgentRequests, outcome \in AgentRepliesIn \cup AgentFailuresIn :
        agent_chat(request, outcome) /\ SessionsWithin(1)

InitAgent == sessions = <<>> /\ turn = Ready

NextAgent == AgentChat \/ AgentReturn

SpecAgent == InitAgent /\ [][NextAgent]_vars

\* a process with either of the two stores, called directly
InitStores == sessions = <<>> /\ turn \in {Idle, Ready}

NextStores == NextStore \/ NextAgentStore

SpecStores == InitStores /\ [][NextStores]_vars

----------------------------------------------------------------------------
(* Several sessions in the store *)

SeveralSessionIdsIn ==
    {"None", "unknown"} \cup {SidPool[i] : i \in 1..(MaxSessions + 1)}

SeveralRequests ==
    [session_id : SeveralSessionIdsIn,
     message : {<<"h", "i">>},
     mrt_content : {None, <<"b">>},
     software_requirement : {None, <<"r">>},
     files : {<<>>},
     messages : {<<>>}]

ChatStreamSeveral ==
    /\ turn.op = "idle"
    /\ \E request \in SeveralRequests :
        chat_stream(request, FALSE) /\ SessionsWithin(MaxSessions + 1)

NextSeveral == ChatStreamSeveral \/ EndTurn

SpecSeveral == Init /\ [][NextSeveral]_vars

----------------------------------------------------------------------------
(* add_mrt called directly on stores that hold several sessions *)

SeveralSidsIn == {"unknown"} \cup {SidPool[i] : i \in 1..(MaxSessions + 1)}

CreateSeveral ==
    /\ turn.op = "idle"
    /\ sessions' = create(sessions, FreshSid(sessions))
    /\ SessionsWithin(MaxSessions + 1)
    /\ turn' = [op |-> "create", session_id |-> FreshSid(sessions), raised |-> "None"]

AddMrtSeveral ==
    /\ turn.op = "idle"
    /\ \E session_id \in SeveralSidsIn, content \in {<<"a">>} :
        IF session_id \notin DOMAIN sessions
        THEN /\ turn' = [op |-> "add_mrt", session_id |-> session_id,
                         content |-> content, raised |-> "KeyError"]
             /\ sessions' = on_not_found(sessions, session_id)
        ELSE /\ FreshMrtId(UsedMrtIds(sessions)) # "exhausted"
             /\ sessions' = add_mrt(sessions, session_id,
                                    FreshMrtId(UsedMrtIds(sessions)), content, None)
             /\ turn' = [op |-> "add_mrt", session_id |-> session_id,
                         content |-> content, raised |-> "None"]

AgentCreateSeveral ==
    /\ turn = Ready
    /\ sessions' = agent_create(sessions, FreshSid(sessions))
    /\ SessionsWithin(MaxSessions + 1)
    /\ turn' = [op |-> "agent_create", session_id |-> FreshSid(sessions),
                raised |-> "None"]

AgentAddMrtSeveral ==
    /\ turn = Ready
    /\ \E session_id \in SeveralSidsIn, content \in AgentContentsIn :
        IF session_id \notin DOMAIN sessions
        THEN /\ turn' = [op |-> "agent_add_mrt", session_id |-> session_id,
                         content |-> content, raised |-> "KeyError"]
             /\ sessions' = on_not_found(sessions, session_id)
        ELSE /\ FreshMrtId(UsedMrtIds(sessions)) # "exhausted"
             /\ sessions' = agent_add_mrt(sessions, session_id,
                                          FreshMrtId(UsedMrtIds(sessions)),
                                          content, None)
             /\ turn' = [op |-> "agent_add_mrt", session_id |-> session_id,
                         content |-> content, raised |-> "None"]

NextAddMrt ==
    \/ CreateSeveral \/ AddMrtSeveral \/ ChatStreamSeveral \/ EndTurn
    \/ AgentCreateSeveral \/ AppendHistory \/ AgentAddMrtSeveral \/ AgentReturn

SpecAddMrt == InitStores /\ [][NextAddMrt]_vars

----------------------------------------------------------------------------
(* Two turns served at the same time.  The endpoint is a plain `def`, so    *)
(* each request runs chat_stream in a worker thread of its own; the threads  *)
(* share the SessionStore and take turns between any two of its calls and    *)
(* writes.  A worker is [request, pc, session_id, current_state,             *)
(* detected_new_mrt, alone]; `alone` is what the same turn leaves in its     *)
(* session when it runs by itself on the store the two turns started from.   *)
(* The requests carry no files, so lines 319-326 do nothing.                 *)

\* what a session holds, entry ids left out (uuid4 gives other ids each run)
Outcome(session) ==
    [state |-> session.state,
     software_requirement |-> session.software_requirement,
     entries |-> Cardinality(DOMAIN session.mrts),
     contents |-> {session.mrts[k].content : k \in DOMAIN session.mrts},
     current |-> IF session.current_mrt_id \in DOMAIN session.mrts
                 THEN session.mrts[session.current_mrt_id].content
                 ELSE None]

\* lines 308-350 run in one piece on the store ss
Alone(ss, request) ==
    LET a == Resolve(ss, request)
        st1 == StoreFileMrt(a, _handle_files(request.files))
        st2 == StoreDirectMrt(a, st1, request)
        ss3 == StoreRequirement(a, st2, request)
        d == Decide(a, st2, ss3)
    IN  Outcome(d.sessions[a.session_id])

SeedRequests ==
    [session_id : {"None", SidPool[1], SidPool[2]},
     message : {<<"h", "i">>},
     mrt_content : {None, <<"b">>},
     software_requirement : {None, <<"r">>},
     files : {<<>>},
     messages : {<<>>}]

\* a turn served while no other is in flight
SeedTurn ==
    /\ turn.op = "idle"
    /\ \E request \in SeedRequests :
        chat_stream(request, FALSE) /\ SessionsWithin(2)

ConcurrentRequests ==
    [session_id : {"None", SidPool[1], SidPool[2]},
     message : {<<"h", "i">>},
     mrt_content : {None, <<"c">>},
     software_requirement : {None, <<"q">>},
     files : {<<>>},
     messages : {<<>>}]

Worker(request) ==
    [request |-> request,
     pc |-> "resolve",
     session_id |-> "None",
     current_state |-> "None",
     detected_new_mrt |-> FALSE,
     alone |-> Alone(sessions, request)]

\* two requests for different sessions arrive: known ids that differ, or no
\* id, which makes a session of its own
Arrive ==
    /\ turn.op = "idle"
    /\ \E r1, r2 \in ConcurrentRequests :
        /\ r1.session_id = "None" \/ r1.session_id \in DOMAIN sessions
        /\ r2.session_id = "None" \/ r2.session_id \in DOMAIN sessions
        /\ r1.session_id = "None" \/ r1.session_id # r2.session_id
        /\ Cardinality(DOMAIN sessions)
               + Cardinality({i \in 1..2 : <<r1, r2>>[i].session_id = "None"}) <= 2
        /\ turn' = [op |-> "concurrent",
                    workers |-> <<Worker(r1), Worker(r2)>>,
                    used |-> UsedMrtIds(sessions)]
    /\ UNCHANGED sessions

\* worker i moves to pc with its locals changed as given
Moved(i, pc, changes) ==
    [turn EXCEPT !.workers[i] =
        [f \in DOMAIN @ |->
            IF f = "pc" THEN pc
            ELSE IF f \in DOMAIN changes THEN changes[f] ELSE @[f]]]

\* lines 308-315
StepResolve(i) ==
    LET w == turn.workers[i]
        a == Resolve(sessions, w.request)
    IN  /\ turn.op = "concurrent"
        /\ w.pc = "resolve"
        /\ sessions' = a.ss
        /\ turn' = Moved(i, "look", [session_id |-> a.session_id,
                                      current_state |-> a.current_state])

\* lines 328-332: is there MRT text, and is it new
StepLook(i) ==
    LET w == turn.workers[i]
        content == strip(w.request.mrt_content)
        current_mrt == get_current_mrt(sessions, w.session_id)
    IN  /\ turn.op = "concurrent"
        /\ w.pc = "look"
        /\ turn' = Moved(i,
               IF ~Truthy(w.request.mrt_content) THEN "requirement"
               ELSE IF current_mrt = NoEntry THEN "add"
               ELSE IF current_mrt.content # content THEN "clear"
               ELSE "requirement",
               <<>>)
        /\ UNCHANGED sessions

\* line 333
StepClear(i) ==
    LET w == turn.workers[i]
    IN  /\ turn.op = "concurrent"
        /\ w.pc = "clear"
        /\ sessions' = clear_mrt(sessions, w.session_id)
        /\ turn' = Moved(i, "add", <<>>)

\* lines 334-335
StepAdd(i) ==
    LET w == turn.workers[i]
        id == FreshMrtId(turn.used \cup UsedMrtIds(sessions))
    IN  /\ turn.op = "concurrent"
        /\ w.pc = "add"
        /\ id # "exhausted"
        /\ sessions' = add_mrt(sessions, w.session_id, id,
                               strip(w.request.mrt_content), None)
        /\ turn' = [Moved(i, "requirement", [detected_new_mrt |-> TRUE])
                        EXCEPT !.used = @ \cup {id}]

\* lines 337-338
StepRequirement(i) ==
    LET w == turn.workers[i]
    IN  /\ turn.op = "concurrent"
        /\ w.pc = "requirement"
        /\ sessions' = StoreRequirement(w, [ss |-> sessions], w.request)
        /\ turn' = Moved(i, "decide", <<>>)

\* lines 340-350
StepDecide(i) ==
    LET w == turn.workers[i]
    IN  /\ turn.op = "concurrent"
        /\ w.pc = "decide"
        /\ sessions' = Decide(w, w, sessions).sessions
        /\ turn' = Moved(i, "done", <<>>)

\* both turns are past line 350; what follows writes nothing to the store
BothServed ==
    /\ turn.op = "concurrent"
    /\ \A i \in 1..2 : turn.workers[i].pc = "done"
    /\ turn' = Idle
    /\ UNCHANGED sessions

\* either worker takes its next step
NextConcurrent ==
    \/ SeedTurn \/ EndTurn \/ Arrive \/ BothServed
    \/ \E i \in 1..2 :
        \/ StepResolve(i) \/ StepLook(i) \/ StepClear(i)
        \/ StepAdd(i) \/ StepRequirement(i) \/ StepDecide(i)

SpecConcurrent == Init /\ [][NextConcurrent]_vars

----------------------------------------------------------------------------
(* _handle_files on lists of files, files at and over the size limit among  *)
(* them                                                                      *)

MaxFiles == 2

\* a text of n characters
RECURSIVE Rep(_)
Rep(n) ==
    IF n = 0 THEN <<>>
    ELSE IF n % 2 = 0 THEN LET half == Rep(n \div 2) IN half \o half
    ELSE <<"a">> \o Rep(n - 1)

NearLimitText == Rep(MAX_CONTENT_SIZE - 1)
AtLimitText == Rep(MAX_CONTENT_SIZE)
OverLimitText == Rep(MAX_CONTENT_SIZE) \o <<"z">>

NearLimitFile == [name |-> <<"n">>, content |-> NearLimitText]
AtLimitFile == [name |-> <<"l">>, content |-> AtLimitText]
OverLimitFile == [name |-> <<"o">>, content |-> OverLimitText]

FileKindsIn ==
    {TextFile, EmptyFile, NoContentFile, BinaryFile,
     NearLimitFile, AtLimitFile, OverLimitFile}

FileListsIn ==
    UNION {[1..n -> FileKindsIn] : n \in 0..MaxFiles}

\* n copies of one character
Times(ch, n) == [i \in 1..n |-> ch]

\* a text as its runs of equal characters, the form the state holds texts in
RECURSIVE Runs(_)
Runs(text) ==
    IF text = <<>> THEN <<>>
    ELSE LET ch == text[1]
             n == CHOOSE i \in 1..Len(text) :
                     /\ (i = Len(text) \/ text[i + 1] # ch)
                     /\ \A j \in 1..i : text[j] = ch
         IN  <<[ch |-> ch, n |-> n]>> \o Runs(SubSeq(text, n + 1, Len(text)))

\* the text that the runs stand for
RECURSIVE Text(_)
Text(runs) ==
    IF runs = <<>> THEN <<>>
    ELSE Times(runs[1].ch, runs[1].n) \o Text(Tail(runs))

Stored(file) == [name |-> Runs(file.name), content |-> Runs(file.content)]
Loaded(file) == [name |-> Text(file.name), content |-> Text(file.content)]

StoredList(files) == [i \in 1..Len(files) |-> Stored(files[i])]
LoadedList(files) == [i \in 1..Len(files) |-> Loaded(files[i])]

StoredTexts(texts) == [i \in 1..Len(texts) |-> Runs(texts[i])]
LoadedTexts(texts) == [i \in 1..Len(texts) |-> Text(texts[i])]

InitFiles ==
    /\ sessions = <<>>
    /\ \E files \in FileListsIn :
        turn = [op |-> "files", files |-> StoredList(files)]

\* ChatService._handle_files applied to the list
HandleFiles ==
    /\ turn.op = "files"
    /\ \E files \in {LoadedList(turn.files)} :
       \E result \in {_handle_files(files)} :
        turn' = [op |-> "_handle_files",
                 files |-> turn.files,
                 mrt_content_parts |->
                     StoredTexts(IF files = <<>> THEN <<>>
                                 ELSE _handle_files_loop(files, 1, <<>>, 0)),
                 result |-> [content |-> Runs(result.content),
                             has_new_mrt |-> result.has_new_mrt]]
    /\ UNCHANGED sessions

\* the files, the parts and the blob of the call the state holds
files_handled == LoadedList(turn.files)
parts_returned == LoadedTexts(turn.mrt_content_parts)
blob_returned == Text(turn.result.content)

NextFiles == HandleFiles

SpecFiles == InitFiles /\ [][NextFiles]_vars

----------------------------------------------------------------------------
(* A conversation: each turn of a session followed by the next one *)

FollowRequests ==
    [session_id : {"None"},
     message : MessagesIn,
     mrt_content : {None, <<" ">>, <<"b">>},
     software_requirement : {None, <<"r">>},
     files : {<<>>, <<TextFile>>},
     messages : HistoriesIn]

\* the first turn of a conversation: no session id is sent
FirstTurn ==
    /\ turn.op = "idle"
    /\ \E request \in FollowRequests :
        chat_stream(request, FALSE) /\ SessionsWithin(MaxSessions)

\* the caller has read the stream to its end and sends the next request of
\* the conversation, on the session of the turn just served
FollowUp ==
    /\ turn.op = "chat_stream"
    /\ \E request \in FollowRequests :
        chat_stream([request EXCEPT !.session_id = turn.session_id], TRUE)

NextFollow == FirstTurn \/ FollowUp

SpecFollow == Init /\ [][NextFollow]_vars

----------------------------------------------------------------------------
(* Two turns served at the same time on ONE session, each bringing an MRT   *)
(* of its own.  The threads take turns between any two statements, those of  *)
(* add_mrt and clear_mrt included: each of the two writes of add_mrt (lines  *)
(* 67, 68) and of clear_mrt (lines 75, 76) is a step.  A worker keeps the    *)
(* id of the entry it made in mrt_id.                                        *)

\* line 67: the new entry is put into the session's map
add_mrt_entry(ss, session_id, id, content, name) ==
    LET mrt_entry == MRTEntry(id, content, name)
        old == ss[session_id].mrts
    IN  [ss EXCEPT ![session_id].mrts =
                       [k \in DOMAIN old \cup {id} |->
                           IF k = id THEN mrt_entry ELSE old[k]]]

\* line 68: the new entry's id becomes the current one
add_mrt_current(ss, session_id, id) ==
    [ss EXCEPT ![session_id].current_mrt_id = id]

\* line 75: the session gets an empty map
clear_mrt_map(ss, session_id) ==
    [ss EXCEPT ![session_id].mrts = <<>>]

\* line 76: no entry is current
clear_mrt_current(ss, session_id) ==
    [ss EXCEPT ![session_id].current_mrt_id = "None"]

RaceWorker(request) ==
    [request |-> request,
     pc |-> "resolve",
     session_id |-> "None",
     current_state |-> "None",
     detected_new_mrt |-> FALSE,
     mrt_id |-> "None"]

RaceRequests ==
    [session_id : {SidPool[1]},
     message : {<<"h", "i">>},
     mrt_content : {<<"c">>, <<"d">>},
     software_requirement : {None},
     files : {<<>>},
     messages : {<<>>}]

\* two requests arrive for the same session, each with MRT text of its own
ArriveSame ==
    /\ turn.op = "idle"
    /\ \E r1, r2 \in RaceRequests :
        /\ r1.session_id \in DOMAIN sessions
        /\ r2.session_id = r1.session_id
        /\ r1.mrt_content # r2.mrt_content
        /\ turn' = [op |-> "concurrent",
                    workers |-> <<RaceWorker(r1), RaceWorker(r2)>>,
                    used |-> UsedMrtIds(sessions)]
    /\ UNCHANGED sessions

\* line 333, first write of clear_mrt
WriteNoEntries(i) ==
    LET w == turn.workers[i]
    IN  /\ turn.op = "concurrent"
        /\ w.pc = "clear"
        /\ sessions' = clear_mrt_map(sessions, w.session_id)
        /\ turn' = Moved(i, "clear_current", <<>>)

\* line 333, second write of clear_mrt
WriteNoCurrent(i) ==
    LET w == turn.workers[i]
    IN  /\ turn.op = "concurrent"
        /\ w.pc = "clear_current"
        /\ sessions' = clear_mrt_current(sessions, w.session_id)
        /\ turn' = Moved(i, "add", <<>>)

\* line 334, the entry made and first write of add_mrt
WriteEntry(i) ==
    LET w == turn.workers[i]
        id == FreshMrtId(turn.used \cup UsedMrtIds(sessions))
    IN  /\ turn.op = "concurrent"
        /\ w.pc = "add"
        /\ id # "exhausted"
        /\ sessions' = add_mrt_entry(sessions, w.session_id, id,
                                     strip(w.request.mrt_content), None)
        /\ turn' = [Moved(i, "add_current", [mrt_id |-> id])
                        EXCEPT !.used = @ \cup {id}]

\* line 334, second write of add_mrt, and line 335
WriteCurrent(i) ==
    LET w == turn.workers[i]
    IN  /\ turn.op = "concurrent"
        /\ w.pc = "add_current"
        /\ sessions' = add_mrt_current(sessions, w.session_id, w.mrt_id)
        /\ turn' = Moved(i, "requirement", [detected_new_mrt |-> TRUE])

NextRace ==
    \/ SeedTurn \/ EndTurn \/ ArriveSame \/ BothServed
    \/ \E i \in 1..2 :
        \/ StepResolve(i) \/ StepLook(i)
        \/ WriteNoEntries(i) \/ WriteNoCurrent(i)
        \/ WriteEntry(i) \/ WriteCurrent(i)
        \/ StepRequirement(i) \/ StepDecide(i)

SpecRace == Init /\ [][NextRace]_vars

----------------------------------------------------------------------------
(* The single-pass review without a model (llm/completion_client.py):       *)
(* CompletionClient._heuristic_review on the checklist that                  *)
(* resolve_checklist (checklist.py) hands it.  The configuration's           *)
(* keyword_mapping is a function from checklist ids to lists of keywords;    *)
(* additional_suggestions is a list of [id, keywords, message].              *)

MaxItems == 2

\* checklist.py 14-18
resolve_checklist(items) == IF items = <<>> THEN default_checklist ELSE items

\* `part in s` for two str
occurs_in(part, s) ==
    \E i \in 0..(Len(s) - Len(part)) : SubSeq(s, i + 1, i + Len(part)) = part

\* any_keyword_in with the keywords taken as they are written
any_keyword_in_asWritten(keywords, text) ==
    \E k \in 1..Len(keywords) : occurs_in(keywords[k], text)

\* line 55 and line 74: any(keyword.lower() in text for keyword in keywords)
any_keyword_in(keywords, text) ==
    \E k \in 1..Len(keywords) : occurs_in(lower(keywords[k]), text)

Suggestion(checklist_id, message) ==
    [checklist_id |-> checklist_id, message |-> message]

\* lines 53-69: what one checklist item adds to the suggestions
item_suggestions(item, text, keyword_map) ==
    IF item.id \in DOMAIN keyword_map /\ keyword_map[item.id] # <<>>
    THEN (IF ~any_keyword_in(keyword_map[item.id], text)
          THEN <<Suggestion(item.id,
                            <<"Nothing found about ">> \o item.description
                                \o <<", please add it.">>)>>
          ELSE <<>>)
    ELSE <<Suggestion(item.id,
                      <<"Please confirm that ">> \o item.description
                          \o <<" is covered by the MRT.">>)>>

\* the lists of a list, one after the other
RECURSIVE Flatten(_)
Flatten(lists) ==
    IF lists = <<>> THEN <<>> ELSE Head(lists) \o Flatten(Tail(lists))

\* lines 72-80: what one entry of additional_suggestions adds
additional_suggestion(additional, text) ==
    IF additional.keywords # <<>> /\ ~any_keyword_in(additional.keywords, text)
    THEN <<Suggestion(additional.id, additional.message)>>
    ELSE <<>>

\* lines 82-84
summary_of(suggestions) ==
    IF suggestions # <<>>
    THEN <<"Found ">> \o IntToStr(Len(suggestions)) \o <<" suggestions.">>
    ELSE <<"No obvious problems found. Keep up the quality.">>

\* CompletionClient._heuristic_review; by_item keeps what each item added
_heuristic_review(mrt_content, checklist, keyword_map, additional_suggestions) ==
    LET text == lower(mrt_content)
        by_item == [i \in 1..Len(checklist) |->
                        item_suggestions(checklist[i], text, keyword_map)]
        more == [i \in 1..Len(additional_suggestions) |->
                        additional_suggestion(additional_suggestions[i], text)]
        suggestions == Flatten(by_item) \o Flatten(more)
    IN  [by_item |-> by_item,
         suggestions |-> suggestions,
         summary |-> summary_of(suggestions)]

ItemsIn ==
    {[id |-> <<"X">>, description |-> <<"dx">>],
     [id |-> <<"Y">>, description |-> <<"dy">>]}

ChecklistsIn == UNION {[1..n -> ItemsIn] : n \in 0..MaxItems}

ReviewTextsIn == {<<>>, <<"a">>, <<"A", "b">>, <<"b">>}

KeywordMapsIn ==
    {<<>>,
     <<"X">> :> <<<<"a">>>>,
     <<"X">> :> <<<<"A">>>>,
     <<"X">> :> <<>>,
     <<"X">> :> <<<<"b">>, <<"a", "b">>>>,
     (<<"CHK-001">> :> <<<<"a">>>>) @@ (<<"Y">> :> <<<<"b">>>>)}

AdditionalIn ==
    {<<>>,
     <<[id |-> <<"X">>, keywords |-> <<<<"b">>>>, message |-> <<"mx">>]>>,
     <<[id |-> <<"ADD-1">>, keywords |-> <<>>, message |-> <<"m1">>]>>}

\* a review is asked for while the configuration holds the two settings
InitReview ==
    /\ sessions = <<>>
    /\ \E mrt_content \in ReviewTextsIn, items \in ChecklistsIn,
          keyword_map \in KeywordMapsIn, additional \in AdditionalIn :
        turn = [op |-> "review",
                mrt_content |-> mrt_content,
                items |-> items,
                keyword_mapping |-> keyword_map,
                additional_suggestions |-> additional]

\* resolve_checklist, then CompletionClient._heuristic_review, which review
\* (line 17) calls for a client that has no API key
HeuristicReview ==
    /\ turn.op = "review"
    /\ \E checklist \in {resolve_checklist(turn.items)} :
       \E r \in {_heuristic_review(turn.mrt_content, checklist,
                                   turn.keyword_mapping,
                                   turn.additional_suggestions)} :
        turn' = [op |-> "_heuristic_review",
                 mrt_content |-> turn.mrt_content,
                 items |-> turn.items,
                 keyword_mapping |-> turn.keyword_mapping,
                 additional_suggestions |-> turn.additional_suggestions,
                 checklist |-> checklist,
                 by_item |-> r.by_item,
                 suggestions |-> r.suggestions,
                 summary |-> r.summary]
    /\ UNCHANGED sessions

NextReview == HeuristicReview

SpecReview == InitReview /\ [][NextReview]_vars

----------------------------------------------------------------------------
(* Properties *)

\* the session a chat_stream turn ran on, after the turn
After == sessions[turn.session_id]

\* get_current_mrt read off one session record
EntryOf(session) == get_current_mrt([s \in {"x"} |-> session], "x")

\* has_mrt and has_requirement read off one session record
HasMrtOf(session) == has_mrt([s \in {"x"} |-> session], "x")

HasRequirementOf(session) == has_requirement([s \in {"x"} |-> session], "x")

\* a text that is present and not only whitespace
NonBlank(text) == text # None /\ strip(text) # <<>>

\* `part` occurs in `s`
IsInfix(part, s) ==
    \E i \in 0..(Len(s) - Len(part)) : SubSeq(s, i + 1, i + Len(part)) = part

\* a chat_stream turn on a session that existed before the turn
TurnOnExisting == turn.op = "chat_stream" /\ ~turn.created

\* The transition table as the specification states it: a newly detected MRT
\* outside INITIAL leads to REVIEWING with a requirement and to
\* AWAITING_REQUIREMENT without; otherwise the row of the current state.
TransitionTable(state, hasMrt, hasRequirement, detectedNewMrt) ==
    IF detectedNewMrt /\ state # INITIAL
    THEN (IF hasRequirement THEN REVIEWING ELSE AWAITING_REQUIREMENT)
    ELSE CASE state = INITIAL -> (IF hasMrt THEN REVIEWING ELSE AWAITING_MRT)
           [] state = AWAITING_MRT ->
                (IF hasMrt THEN AWAITING_REQUIREMENT ELSE AWAITING_MRT)
           [] state = AWAITING_REQUIREMENT ->
                (IF hasMrt THEN REVIEWING ELSE AWAITING_MRT)
           [] state = REVIEWING -> REVIEWING
           [] state = COMPLETED -> (IF hasMrt THEN REVIEWING ELSE AWAITING_MRT)

\* C1: for every current state and every value of hasMrt, hasRequirement and
\* detectedNewMrt, _determine_next_state returns the state the transition
\* table gives: the MRT-detection rule first (except in INITIAL), then the
\* row of the current state.
C1_NextStateIsTableEntry ==
    turn.op = "_determine_next_state" =>
        turn.result = TransitionTable(sessions["s1"].state, turn.has_mrt,
                                      turn.has_req, turn.detected_new_mrt)

\* C1 witness: in REVIEWING a detected MRT without requirement gave
\* AWAITING_REQUIREMENT
C1_Witness ==
    /\ turn.op = "_determine_next_state"
    /\ sessions["s1"].state = REVIEWING
    /\ turn.detected_new_mrt
    /\ ~turn.has_req
    /\ turn.result = AWAITING_REQUIREMENT

\* C2: every stored state is one of the five conversation states, and a turn
\* changes the state of no session but its own, and only to the state the
\* transition table gives for the state before the turn (INITIAL for a session
\* the turn created) and the turn's hasMrt, hasRequirement and detectedNewMrt.
C2_OnlyTableEdges ==
    /\ [](\A s \in DOMAIN sessions : sessions[s].state \in ConversationState)
    /\ [][\A s \in DOMAIN sessions' :
            LET old == IF s \in DOMAIN sessions THEN sessions[s].state ELSE INITIAL
                new == sessions'[s].state
            IN  new # old =>
                    /\ turn'.op = "chat_stream"
                    /\ s = turn'.session_id
                    /\ new = TransitionTable(old, turn'.has_mrt, turn'.has_req,
                                             turn'.detected_new_mrt)]_vars

\* C2 witness: a turn on an existing session changed its state
C2_Witness ==
    /\ TurnOnExisting
    /\ After.state # turn.before.state
    /\ turn.before.state # INITIAL

\* the order INITIAL < AWAITING_MRT < AWAITING_REQUIREMENT < REVIEWING
Rank(state) ==
    CASE state = INITIAL -> 0
      [] state = AWAITING_MRT -> 1
      [] state = AWAITING_REQUIREMENT -> 2
      [] state = REVIEWING -> 3
      [] OTHER -> 4

\* C3: a turn in which no new MRT is detected never moves the session to a
\* state lower in the order INITIAL < AWAITING_MRT < AWAITING_REQUIREMENT <
\* REVIEWING.
C3_NoStepBackWithoutNewMrt ==
    (turn.op = "chat_stream" /\ ~turn.detected_new_mrt) =>
        Rank(After.state) >= Rank(turn.before.state)

\* C4: a turn that supplies again the MRT input of the turn before it on the
\* same session detects no new MRT and leaves the current MRT entry as it was.
C4_SameMrtNotDetectedAgain ==
    (/\ turn.op = "chat_stream"
     /\ turn.resubmit
     /\ (turn.has_file_mrt \/ Truthy(turn.request.mrt_content))) =>
        /\ ~turn.detected_new_mrt
        /\ EntryOf(After) = EntryOf(turn.before)

\* C5: after every SessionStore operation and every turn, a session's
\* current_mrt_id is either None or a key of its mrts map.
C5_CurrentIdIsKey ==
    \A s \in DOMAIN sessions :
        \/ sessions[s].current_mrt_id = "None"
        \/ sessions[s].current_mrt_id \in DOMAIN sessions[s].mrts

\* C5 witness: clear_mrt ran on a session that had a current entry
C5_Witness ==
    /\ turn.op = "clear_mrt"
    /\ turn.raised = "None"
    /\ turn.had_current
    /\ sessions[turn.session_id].current_mrt_id = "None"
    /\ sessions[turn.session_id].mrts = <<>>

\* scenario A: a first message without session id, MRT, requirement or files
ScenarioA(request) ==
    /\ request.session_id = "None"
    /\ Truthy(request.message)
    /\ ~Truthy(request.mrt_content)
    /\ ~Truthy(request.software_requirement)
    /\ request.files = <<>>

\* C6: a first message without a session id creates a session, the caller gets
\* the new session's id back, and the session is in AWAITING_MRT.
C6_FirstMessageReturnsSession ==
    (turn.op = "chat_stream" /\ ScenarioA(turn.request)) =>
        /\ turn.created
        /\ After.state = AWAITING_MRT
        /\ turn.returned_session_id = turn.session_id

\* a turn on a session in AWAITING_MRT without stored requirement that
\* supplies a non-blank mrt_content
C7_Case ==
    /\ TurnOnExisting
    /\ turn.before.state = AWAITING_MRT
    /\ ~HasRequirementOf(turn.before)
    /\ NonBlank(turn.request.mrt_content)

\* C7 as stated: in AWAITING_MRT with no requirement stored, a turn supplying
\* non-blank mrtContent moves the session to AWAITING_REQUIREMENT and the
\* current MRT content equals the supplied string.
C7_Original ==
    C7_Case =>
        /\ After.state = AWAITING_REQUIREMENT
        /\ EntryOf(After).content = turn.request.mrt_content

\* C7: in AWAITING_MRT with no requirement stored, a turn supplying non-blank
\* mrtContent and no non-blank requirement moves the session to
\* AWAITING_REQUIREMENT, and the current MRT content equals the supplied
\* string without its leading and trailing whitespace.
C7_Amended ==
    (C7_Case /\ ~NonBlank(turn.request.software_requirement)) =>
        /\ After.state = AWAITING_REQUIREMENT
        /\ EntryOf(After).content = strip(turn.request.mrt_content)

\* C7 witness: the supplied mrt_content had surrounding whitespace
C7_Witness ==
    /\ C7_Case
    /\ ~NonBlank(turn.request.software_requirement)
    /\ strip(turn.request.mrt_content) # turn.request.mrt_content
    /\ After.state = AWAITING_REQUIREMENT

\* a message-only turn on a session in AWAITING_REQUIREMENT with a non-blank
\* MRT: no requirement and no new MRT come with it
C8_Case ==
    /\ TurnOnExisting
    /\ turn.before.state = AWAITING_REQUIREMENT
    /\ HasMrtOf(turn.before)
    /\ Truthy(turn.request.message)
    /\ ~Truthy(turn.request.software_requirement)
    /\ ~turn.detected_new_mrt

\* C8: in AWAITING_REQUIREMENT with a non-blank MRT, a turn that carries only
\* a message moves the session to REVIEWING, and the user message sent to the
\* text generator on that turn is the user's words followed by text that
\* contains the MRT content.
C8_MessageOnlyStartsReview ==
    C8_Case =>
        /\ After.state = REVIEWING
        /\ turn.llm_called
        /\ turn.messages # <<>>
        /\ LET last == turn.messages[Len(turn.messages)]
               words == turn.request.message
           IN  /\ last.role = "user"
               /\ startswith(last.content, words)
               /\ IsInfix(EntryOf(turn.before).content,
                          SubSeq(last.content, Len(words) + 1, Len(last.content)))

\* C8 witness: such a turn called the text generator
C8_Witness ==
    /\ C8_Case
    /\ turn.request.files = <<>>
    /\ turn.request.mrt_content = None
    /\ turn.llm_called

\* a turn on a session in REVIEWING without stored requirement
C9_Reviewing ==
    /\ TurnOnExisting
    /\ turn.before.state = REVIEWING
    /\ ~HasRequirementOf(turn.before)
    /\ Truthy(turn.request.mrt_content)

\* the turn made the supplied text, as `content`, the one current entry
C9_Replaced(content) ==
    /\ After.state = AWAITING_REQUIREMENT
    /\ EntryOf(After).content = content
    /\ After.current_mrt_id # turn.before.current_mrt_id
    /\ turn.before.current_mrt_id \notin DOMAIN After.mrts

\* C9 as stated: in REVIEWING with no requirement stored, a turn supplying
\* mrtContent that differs from the current MRT content moves the session to
\* AWAITING_REQUIREMENT; the new content is current and the old entry is
\* neither current nor retained.
C9_Original ==
    (/\ C9_Reviewing
     /\ turn.request.mrt_content # EntryOf(turn.before).content) =>
        C9_Replaced(turn.request.mrt_content)

\* C9: in REVIEWING with no requirement stored, a turn supplying mrtContent
\* that, without its leading and trailing whitespace, differs from the current
\* MRT content, and supplying no non-blank requirement, moves the session to
\* AWAITING_REQUIREMENT; the supplied text without its leading and trailing
\* whitespace is current and the old entry is neither current nor retained.
C9_Amended ==
    (/\ C9_Reviewing
     /\ strip(turn.request.mrt_content) # EntryOf(turn.before).content
     /\ ~NonBlank(turn.request.software_requirement)) =>
        C9_Replaced(strip(turn.request.mrt_content))

\* C9 witness: a non-blank MRT under review was replaced by another one
C9_Witness ==
    /\ C9_Reviewing
    /\ HasMrtOf(turn.before)
    /\ NonBlank(turn.request.mrt_content)
    /\ strip(turn.request.mrt_content) # EntryOf(turn.before).content
    /\ ~NonBlank(turn.request.software_requirement)
    /\ C9_Replaced(strip(turn.request.mrt_content))

\* every file of a non-empty list has empty content
AllFilesEmpty(files) ==
    /\ files # <<>>
    /\ \A i \in 1..Len(files) : DictGet(files[i].content, <<>>) = <<>>

\* a turn with only empty files, no message and no mrt_content, on a new
\* session or on one in AWAITING_MRT without MRT
C10_Case ==
    /\ turn.op = "chat_stream"
    /\ AllFilesEmpty(turn.request.files)
    /\ ~Truthy(turn.request.message)
    /\ ~Truthy(turn.request.mrt_content)
    /\ \/ turn.created
       \/ turn.before.state = AWAITING_MRT /\ ~HasMrtOf(turn.before)

\* C10: a turn whose files all have empty content, with no message and no
\* mrtContent, on a new session or on one in AWAITING_MRT with no MRT, leaves
\* hasMrt false and the session in AWAITING_MRT.
C10_EmptyFilesAreNoMrt ==
    C10_Case =>
        /\ ~turn.has_mrt
        /\ ~HasMrtOf(After)
        /\ After.state = AWAITING_MRT

\* C10 witness: such a turn on an existing session in AWAITING_MRT
C10_Witness ==
    /\ C10_Case
    /\ ~turn.created
    /\ After.state = AWAITING_MRT

\* the text a turn speaks with: the user's message, else the text that
\* stands in for it when only files were sent
TurnUserText ==
    IF Truthy(turn.request.message) THEN turn.request.message
    ELSE <<"Please help me review these files">>

\* the last message handed to the text generator
LastMessage == turn.messages[Len(turn.messages)]

\* `text` ends with `part`, and `head` is what precedes it
EndsWith(text, head, part) == text = head \o part

\* C11: whenever chat_stream calls the text generator on a turn whose computed
\* state is REVIEWING, the last message passed is a user message that starts
\* with this turn's user text, followed by text that contains the whole
\* current MRT content and, if a requirement is stored, ends with the
\* requirement.
C11_ReviewMessageCarriesContext ==
    (/\ turn.op = "chat_stream"
     /\ turn.llm_called
     /\ turn.next_state = REVIEWING) =>
        /\ LastMessage.role = "user"
        /\ startswith(LastMessage.content, TurnUserText)
        /\ LET rest == SubSeq(LastMessage.content, Len(TurnUserText) + 1,
                              Len(LastMessage.content))
               requirement == After.software_requirement
           IN  /\ IsInfix(EntryOf(After).content, rest)
               /\ Truthy(requirement) =>
                    /\ Len(rest) >= Len(requirement)
                    /\ SubSeq(rest, Len(rest) - Len(requirement) + 1, Len(rest))
                           = requirement

\* C12: on every turn whose computed state is not REVIEWING, the messages for
\* the text generator are the trimmed history, alone or followed by one user
\* message that is exactly the user's text or the default file-review text.
C12_NoContextOutsideReview ==
    (turn.op = "chat_stream" /\ turn.next_state # REVIEWING) =>
        LET history == _trim_history(turn.request.messages, 10)
        IN  \/ turn.messages = history
            \/ turn.messages =
                   Append(history, [role |-> "user", content |-> TurnUserText])

\* C12 witness: a turn in AWAITING_REQUIREMENT with a message, a non-blank MRT
\* and a stored history sent the user's words alone
C12_Witness ==
    /\ turn.op = "chat_stream"
    /\ turn.next_state = AWAITING_REQUIREMENT
    /\ turn.has_mrt
    /\ Truthy(turn.request.message)
    /\ turn.request.messages # <<>>
    /\ turn.llm_called
    /\ LastMessage.content = turn.request.message

\* C13: on every turn, chat_stream calls the text generator if and only if
\* the computed state is REVIEWING or AWAITING_REQUIREMENT and the message
\* list (trimmed history plus this turn's user message) is not empty.
C13_GeneratorCalledIff ==
    turn.op = "chat_stream" =>
        (turn.llm_called <=>
            /\ turn.next_state \in {REVIEWING, AWAITING_REQUIREMENT}
            /\ turn.messages # <<>>)

\* C13 witness: the generator was called on the history alone, and some turn
\* in AWAITING_MRT with messages did not call it
C13_Witness ==
    /\ turn.op = "chat_stream"
    /\ turn.llm_called
    /\ ~Truthy(turn.request.message)
    /\ ~turn.has_file_mrt
    /\ turn.messages = turn.request.messages

\* C14: on every turn whose computed state is neither REVIEWING nor
\* AWAITING_REQUIREMENT, chat_stream emits a static guidance or welcome
\* message, that is at least one chunk, and does not call the text generator.
C14_StaticMessageWithoutGeneration ==
    (/\ turn.op = "chat_stream"
     /\ turn.next_state \notin {REVIEWING, AWAITING_REQUIREMENT}) =>
        /\ ~turn.llm_called
        /\ turn.chunks # <<>>

\* what the caller reads back from the content of an event: json.loads
RECURSIVE json_loads(_)
json_loads(text) ==
    IF text = <<>> THEN <<>>
    ELSE IF Head(text) = "\\" /\ Len(text) >= 2
    THEN <<(IF text[2] = "n" THEN "\n" ELSE text[2])>>
            \o json_loads(SubSeq(text, 3, Len(text)))
    ELSE <<Head(text)>> \o json_loads(Tail(text))

\* the chunks the caller has received so far, in the order received
RECURSIVE ChunkTexts(_)
ChunkTexts(events) ==
    IF events = <<>> THEN <<>>
    ELSE (IF Head(events).type = "chunk"
          THEN <<json_loads(Head(events).content)>>
          ELSE <<>>) \o ChunkTexts(Tail(events))

\* a chunk that explains a failure of the text generator
IsExplanation(chunk) ==
    /\ chunk # <<>>
    /\ chunk[1] \in
        {"Connection reset: the file may be too large or the network unstable. ...",
         "Request timed out: processing took too long. ...",
         "Connection error: cannot reach the AI service. ...",
         "Error while handling the request: "}

\* C15: a failure raised by the text generator, before the first chunk or
\* after some chunks, is caught by chat_stream and becomes exactly one
\* explanatory chunk, which is the last chunk of the turn; chat_stream ends
\* normally, so no error event reaches the caller.
C15_FailureBecomesLastChunk ==
    (turn.op = "chat_stream" /\ turn.failed) =>
        LET received == ChunkTexts(turn.events)
        IN  /\ Len(received) = Len(turn.chunks) + Len(turn.produced) + 1
            /\ IsExplanation(received[Len(received)])
            /\ \A i \in 1..(Len(received) - 1) : ~IsExplanation(received[i])
            /\ \A i \in 1..Len(turn.events) : turn.events[i].type # "error"
            /\ Phase(turn) \in {"returned", "done"}

\* C15 witness: the generator failed with a plain error after a chunk and the
\* stream was read to its end
C15_Witness ==
    /\ turn.op = "chat_stream"
    /\ turn.failed
    /\ turn.produced # <<>>
    /\ turn.phase = "done"
    /\ ChunkTexts(turn.events)[Len(turn.produced) + Len(turn.chunks) + 1]
           = <<"Error while handling the request: ", "boom">>

\* C16: once chat_stream has written the session (MRT replacement,
\* requirement, state) and before it yields its first chunk, nothing in the
\* rest of the turn changes the store: not a chunk, not the end of the stream,
\* not a failure of the generator, not the caller going away.
C16_SessionFixedWhileStreaming ==
    [][turn.op = "chat_stream" => sessions' = sessions]_vars

\* C16 witness: the caller went away after a generated chunk of a turn that
\* had stored a new MRT
C16_Witness ==
    /\ turn.op = "chat_stream"
    /\ turn.phase = "abandoned"
    /\ turn.detected_new_mrt
    /\ turn.produced # <<>>
    /\ EntryOf(After).content = <<"b">>
    /\ After.state = turn.next_state

\* C17: the chunks the caller receives after chat_stream's own chunks are the
\* chunks the text generator has produced, in the same order, each unchanged,
\* none dropped or duplicated; only the explanation of a failure may follow.
C17_ChunksForwardedInOrder ==
    turn.op = "chat_stream" =>
        LET received == ChunkTexts(turn.events)
            n == Len(turn.chunks)
            m == Len(turn.produced)
        IN  /\ m > 0 => /\ Len(received) >= n + m
                        /\ SubSeq(received, n + 1, n + m) = turn.produced
            /\ Len(received) <= n + m + (IF turn.failed THEN 1 ELSE 0)

\* C17 witness: two chunks, the second with a line break and a quote, were
\* generated and the stream was read to its end
C17_Witness ==
    /\ turn.op = "chat_stream"
    /\ turn.phase = "done"
    /\ ~turn.failed
    /\ turn.produced = <<<<"x">>, <<"\n", "\"">>>>
    /\ turn.chunks # <<>>

\* the last k elements of a sequence
Suffix(seq, k) == SubSeq(seq, Len(seq) - k + 1, Len(seq))

\* C18: for every history, the trimmed history is a contiguous suffix of the
\* history, or the history's leading system turn followed by a contiguous
\* suffix of the history; nothing is reordered or altered.
C18_TrimKeepsOrder ==
    turn.op = "_trim_history" =>
        \E k \in 0..Len(turn.messages) :
            \/ turn.result = Suffix(turn.messages, k)
            \/ /\ turn.messages # <<>>
               /\ turn.messages[1].role = "system"
               /\ turn.result = <<turn.messages[1]>> \o Suffix(turn.messages, k)

\* C18 witness: a history with a leading system turn was cut to the system
\* turn and the two latest turns
C18_Witness ==
    /\ turn.op = "_trim_history"
    /\ turn.messages = <<SystemTurn, UserTurn, AssistantTurn, UserTurn>>
    /\ turn.max_turns = 3
    /\ turn.result = <<SystemTurn, AssistantTurn, UserTurn>>

\* C19: for every history and every positive limit N, _trim_history returns
\* at most N turns, the latest turn of the history is the latest of the
\* result, and a system turn at index 0 of the history is the first turn of
\* the result.
C19_TrimAtMostN ==
    turn.op = "_trim_history" =>
        /\ Len(turn.result) <= turn.max_turns
        /\ turn.messages # <<>> =>
            /\ turn.result # <<>>
            /\ turn.result[Len(turn.result)] = turn.messages[Len(turn.messages)]
            /\ turn.messages[1].role = "system" => turn.result[1] = turn.messages[1]

\* C20: a turn whose session id is absent or not in the store does not fail:
\* exactly one new session is created, in state INITIAL and empty, the turn
\* is processed against it, and every session that existed is left as it was.
C20_UnknownSessionStartsFresh ==
    [][(/\ turn'.op = "chat_stream"
        /\ \/ turn'.request.session_id = "None"
           \/ turn'.request.session_id \notin DOMAIN sessions) =>
            /\ turn'.created
            /\ turn'.session_id \notin DOMAIN sessions
            /\ DOMAIN sessions' = DOMAIN sessions \cup {turn'.session_id}
            /\ \A s \in DOMAIN sessions : sessions'[s] = sessions[s]
            /\ turn'.before = NewSession
            /\ turn'.before.state = INITIAL
            /\ sessions'[turn'.session_id].state =
                   TransitionTable(INITIAL, turn'.has_mrt, turn'.has_req,
                                   turn'.detected_new_mrt)]_vars

\* C20 witness: a turn with an unknown id got a session of its own next to a
\* session that holds an MRT
C20_Witness ==
    /\ turn.op = "chat_stream"
    /\ turn.request.session_id = "unknown"
    /\ turn.created
    /\ turn.detected_new_mrt
    /\ \E s \in DOMAIN sessions :
        /\ s # turn.session_id
        /\ sessions[s].state = REVIEWING
        /\ sessions[s].software_requirement = <<"r">>

\* C21: a SessionStore mutation (add_mrt, clear_mrt, set_state,
\* append_history) called with an id that is not in the store raises the
\* not-found error and leaves the whole store as it was.
C21_UnknownIdRaisesAndKeepsStore ==
    [][(/\ turn'.op \in {"add_mrt", "clear_mrt", "set_state",
                         "append_history", "agent_add_mrt"}
        /\ turn'.session_id \notin DOMAIN sessions) =>
            /\ turn'.raised = "KeyError"
            /\ sessions' = sessions]_vars

\* C21 witness: append_history was refused on a store that holds a session
\* with history
C21_Witness ==
    /\ turn.op = "append_history"
    /\ turn.raised = "KeyError"
    /\ turn.session_id \notin DOMAIN sessions
    /\ \E s \in DOMAIN sessions : sessions[s].history # <<>>

\* C22: has_mrt, has_requirement and can_start_review never fail and never
\* modify the store; for an unknown session they are false and get and
\* get_current_mrt give None; has_mrt is true exactly when the current entry
\* exists and its content is not blank; can_start_review equals has_mrt.
C22_PredicatesAreSafeReads ==
    [][turn'.op = "query" =>
        LET sid == turn'.session_id
        IN  /\ turn'.raised = "None"
            /\ sessions' = sessions
            /\ sid \notin DOMAIN sessions =>
                   /\ ~turn'.has_mrt
                   /\ ~turn'.has_requirement
                   /\ ~turn'.can_start_review
                   /\ turn'.get = "None"
                   /\ turn'.get_current_mrt = NoEntry
            /\ turn'.has_mrt <=>
                   /\ sid \in DOMAIN sessions
                   /\ \E k \in DOMAIN sessions[sid].mrts :
                       /\ k = sessions[sid].current_mrt_id
                       /\ \E i \in 1..Len(sessions[sid].mrts[k].content) :
                           sessions[sid].mrts[k].content[i] \notin Whitespace
            /\ turn'.can_start_review = turn'.has_mrt]_vars

\* C22 witness: the predicates were asked about a session in REVIEWING whose
\* current entry is blank, so has_mrt and can_start_review are both false
C22_Witness ==
    /\ turn.op = "query"
    /\ turn.session_id \in DOMAIN sessions
    /\ sessions[turn.session_id].state = REVIEWING
    /\ turn.get_current_mrt # NoEntry
    /\ turn.get_current_mrt.content = <<" ">>
    /\ turn.has_requirement
    /\ ~turn.has_mrt
    /\ ~turn.can_start_review

\* C23: add_mrt on a known session adds one new entry and makes it current,
\* keeps every entry the session's map already had, and changes nothing
\* else in that session (state, requirement, history) nor any other session.
C23_AddMrtKeepsTheRest ==
    [][(/\ turn'.op \in {"add_mrt", "agent_add_mrt"}
        /\ turn'.session_id \in DOMAIN sessions) =>
        LET sid == turn'.session_id
            old == sessions[sid]
            new == sessions'[sid]
            id == new.current_mrt_id
        IN  /\ turn'.raised = "None"
            /\ DOMAIN sessions' = DOMAIN sessions
            /\ \A s \in DOMAIN sessions \ {sid} : sessions'[s] = sessions[s]
            /\ id \notin DOMAIN old.mrts
            /\ DOMAIN new.mrts = DOMAIN old.mrts \cup {id}
            /\ \A k \in DOMAIN old.mrts : new.mrts[k] = old.mrts[k]
            /\ new.mrts[id].content = turn'.content
            /\ [new EXCEPT !.mrts = old.mrts,
                           !.current_mrt_id = old.current_mrt_id] = old]_vars

\* C23 witness: add_mrt gave a session in REVIEWING with a requirement its
\* second entry while another session holds an entry of its own
C23_Witness ==
    /\ turn.op = "add_mrt"
    /\ turn.raised = "None"
    /\ LET session == sessions[turn.session_id]
       IN  /\ Cardinality(DOMAIN session.mrts) >= 2
           /\ session.state = REVIEWING
           /\ session.software_requirement = <<"r">>
    /\ \E s \in DOMAIN sessions \ {turn.session_id} : sessions[s].mrts # <<>>

\* C24: a turn that supplies requirement text overwrites the session's
\* stored requirement with that text, trimmed, whatever was stored before;
\* a turn that supplies none leaves the stored requirement unchanged.
C24_RequirementOverwritten ==
    turn.op = "chat_stream" =>
        LET supplied == turn.request.software_requirement
            stored == sessions[turn.session_id].software_requirement
        IN  IF supplied # None /\ supplied # <<>>
            THEN stored = strip(supplied)
            ELSE stored = turn.before.software_requirement

\* C24 witness: a session that held the requirement "r" was sent " " and now
\* holds the empty text
C24_Witness ==
    /\ TurnOnExisting
    /\ turn.before.software_requirement = <<"r">>
    /\ turn.request.software_requirement = <<" ">>
    /\ sessions[turn.session_id].software_requirement = <<>>

\* C24 witness of the other half: a turn without requirement text on a
\* session that holds one
C24_WitnessKept ==
    /\ TurnOnExisting
    /\ turn.before.software_requirement = <<"r">>
    /\ turn.request.software_requirement = None

\* C25: two turns on different sessions served at the same time, their
\* store reads and writes interleaved in any order, leave each session with
\* the state, MRT entries and requirement its turn leaves when run alone.
C25_ConcurrentTurnsDoNotInterfere ==
    (turn.op = "concurrent" /\ \A i \in 1..2 : turn.workers[i].pc = "done") =>
        /\ turn.workers[1].session_id # turn.workers[2].session_id
        /\ \A i \in 1..2 :
            Outcome(sessions[turn.workers[i].session_id]) = turn.workers[i].alone

\* C25 witness: both turns are served, one replaced the MRT of its session
\* and the other gave a new session its first MRT and its requirement
C25_Witness ==
    /\ turn.op = "concurrent"
    /\ \A i \in 1..2 : turn.workers[i].pc = "done"
    /\ \E i, j \in 1..2 :
        /\ i # j
        /\ turn.workers[i].request.session_id # "None"
        /\ turn.workers[i].detected_new_mrt
        /\ sessions[turn.workers[i].session_id].state = REVIEWING
        /\ turn.workers[j].request.session_id = "None"
        /\ turn.workers[j].detected_new_mrt
        /\ sessions[turn.workers[j].session_id].software_requirement = <<"q">>

\* the literal texts that open the two markers of _handle_files
TruncationMarker == "[note: file content too long, truncated. Original size: "
OmissionMarker == "[note: remaining files left out because of the total size limit]"

\* a file whose content is text: present, not empty, not a binary payload
IsTextFile(file) ==
    /\ DictGet(file.content, <<>>) # <<>>
    /\ ~startswith(file.content, BINARY_FILE)

\* the number of characters of text in the files from file i on
RECURSIVE CombinedTextSize(_, _)
CombinedTextSize(files, i) ==
    IF i > Len(files) THEN 0
    ELSE (IF IsTextFile(files[i]) THEN Len(files[i].content) ELSE 0)
            + CombinedTextSize(files, i + 1)

HasMarker(text) ==
    \E i \in 1..Len(text) : text[i] \in {TruncationMarker, OmissionMarker}

\* C26: when the text of the files together is longer than the limit, the
\* returned blob is no longer than the limit plus a bounded overhead per file
\* (header, separator, marker) and it contains a truncation or omission marker.
C26_OverLimitIsCutAndMarked ==
    (turn.op = "_handle_files"
        /\ CombinedTextSize(files_handled, 1) > MAX_CONTENT_SIZE) =>
        /\ Len(blob_returned) <= MAX_CONTENT_SIZE + 20 * Len(turn.files)
        /\ HasMarker(blob_returned)

\* the length half of C26 alone
C26_LengthBounded ==
    (turn.op = "_handle_files"
        /\ CombinedTextSize(files_handled, 1) > MAX_CONTENT_SIZE) =>
        Len(blob_returned) <= MAX_CONTENT_SIZE + 20 * Len(turn.files)

\* a file that fills the limit exactly, followed by one more text file
C26_FullThenMore ==
    /\ turn.op = "_handle_files"
    /\ turn.files = StoredList(<<AtLimitFile, TextFile>>)
    /\ ~HasMarker(blob_returned)

\* the header _handle_files writes in front of a file's text
HeaderOf(file) ==
    <<"[file: ">> \o DictGet(file.name, <<"unnamed file">>) \o <<"]", "\n">>

\* what the per-file limit alone makes of a text file
CutToLimit(file) ==
    IF Len(file.content) > MAX_CONTENT_SIZE
    THEN SubSeq(file.content, 1, MAX_CONTENT_SIZE)
            \o <<"\n", "\n", TruncationMarker>>
            \o IntToStr(Len(file.content)) \o <<" ", "characters]">>
    ELSE file.content

\* C27: a text file longer than the per-file limit is kept as exactly its
\* first limit characters followed by a truncation marker that states its
\* original length; a text file within the limit is included unmodified.
C27_PerFileLimit ==
    turn.op = "_handle_files" =>
        LET files == files_handled
            parts == parts_returned
        IN  \A i \in 1..Len(files), k \in 1..Len(parts) :
                (/\ IsTextFile(files[i])
                 /\ startswith(parts[k], HeaderOf(files[i]))) =>
                    parts[k] = HeaderOf(files[i]) \o CutToLimit(files[i])

\* C27 where it holds: an over-long file that comes first
C27_FirstFileCut ==
    (/\ turn.op = "_handle_files"
     /\ turn.files # <<>>
     /\ turn.files[1] = Stored(OverLimitFile)) =>
        parts_returned[1] = HeaderOf(OverLimitFile) \o CutToLimit(OverLimitFile)

\* an over-long file after a small one: cut to what is left of the total,
\* its own truncation marker and original length gone
C27_SecondFileLosesMarker ==
    /\ turn.op = "_handle_files"
    /\ turn.files = StoredList(<<TextFile, OverLimitFile>>)
    /\ Len(turn.mrt_content_parts) = 2
    /\ \A j \in 1..Len(turn.mrt_content_parts[2]) :
        turn.mrt_content_parts[2][j].ch # TruncationMarker

\* no file of the request holds text: none sent, content empty or absent,
\* or a binary payload
NoUsableText(files) ==
    \A i \in 1..Len(files) : ~IsTextFile(files[i])

\* C28: when no supplied file yields usable text (no files, empty content,
\* binary payloads), the file ingestor returns an empty blob with the flag
\* false, no MRT entry is stored from files, and the turn goes on.
C28_NoTextNoMrt ==
    (turn.op = "chat_stream" /\ NoUsableText(turn.request.files)) =>
        /\ turn.file_content = <<>>
        /\ ~turn.has_file_mrt
        /\ ~Truthy(turn.request.mrt_content) =>
               sessions[turn.session_id].mrts = turn.before.mrts

\* a binary payload next to an empty file: the note about the payload is
\* stored as the session's MRT
C28_BinaryNoteStored ==
    /\ turn.op = "chat_stream"
    /\ turn.request.files = <<EmptyFile, BinaryFile>>
    /\ turn.request.mrt_content = None
    /\ turn.has_file_mrt
    /\ EntryOf(sessions[turn.session_id]).content = turn.file_content
    /\ turn.file_content # <<>>

\* C29: the events of a turn are zero or more chunk events followed by
\* exactly one terminal event, done or error; the terminal event is the last
\* one and no chunk follows it.  While the stream is still being produced
\* (or the caller went away) only chunk events have been sent.
C29_ChunksThenOneTerminal ==
    turn.op = "chat_stream" =>
        LET events == turn.events
            n == Len(events)
        IN  /\ \A i \in 1..(n - 1) : events[i].type = "chunk"
            /\ turn.phase = "done" => n > 0 /\ events[n].type = "done"
            /\ turn.phase = "raised" => n > 0 /\ events[n].type = "error"
            /\ turn.phase \notin {"done", "raised"} =>
                   \A i \in 1..n : events[i].type = "chunk"

\* C29 witness: the stream ended with the error event after a chunk
C29_Witness ==
    /\ turn.op = "chat_stream"
    /\ turn.phase = "raised"
    /\ Len(turn.events) = 2
    /\ turn.events[1].type = "chunk"
    /\ turn.events[2].type = "error"

\* C29 witness of the other terminal: done as the only event of a turn that
\* yields nothing
C29_WitnessDoneAlone ==
    /\ turn.op = "chat_stream"
    /\ turn.phase = "done"
    /\ turn.events = <<[type |-> "done", content |-> <<>>]>>

\* the history of the turn's session before and after MRTReviewAgent.chat
HistoryBefore == turn.before.history
HistoryAfter == sessions[turn.session_id].history

\* the assistant turn a chat turn ends with: the reply, or the explanation
AssistantEntry(outcome) ==
    HistoryEntry("assistant",
                 IF outcome.raised
                 THEN <<"Error while handling the request: ">> \o outcome.text
                 ELSE outcome.text)

\* C30 as stated: the history before the turn is a prefix of the history
\* after it, and the turn appends the user's message when it is not empty,
\* then exactly one assistant entry (the reply or the error explanation).
C30_Original ==
    turn.op = "agent_chat" =>
        HistoryAfter =
            HistoryBefore
                \o (IF Truthy(turn.request.message)
                    THEN <<HistoryEntry("user", turn.request.message)>>
                    ELSE <<>>)
                \o <<AssistantEntry(turn.outcome)>>

\* a file with content was sent with the turn
SentFileWithContent(request) ==
    \E i \in 1..Len(request.files) : DictGet(request.files[i].content, <<>>) # <<>>

\* C30 amended: the history before the turn is a prefix of the history after
\* it; the turn appends one user entry when the user's message is not empty
\* (that message) or, failing that, when a file with content was sent (the
\* default request to review the files), then exactly one assistant entry.
C30_Amended ==
    turn.op = "agent_chat" =>
        HistoryAfter =
            HistoryBefore
                \o (IF Truthy(turn.request.message)
                    THEN <<HistoryEntry("user", turn.request.message)>>
                    ELSE IF SentFileWithContent(turn.request)
                    THEN <<HistoryEntry("user", <<"Please help me review these files">>)>>
                    ELSE <<>>)
                \o <<AssistantEntry(turn.outcome)>>

\* C30 witness: a file without a message, on a session that has history, and
\* the chatbot failed
C30_Witness ==
    /\ turn.op = "agent_chat"
    /\ ~turn.created
    /\ HistoryBefore # <<>>
    /\ turn.request.message = None
    /\ turn.request.files = <<TextFile>>
    /\ turn.outcome.raised
    /\ Len(HistoryAfter) = Len(HistoryBefore) + 2

\* C32: after any sequence of chat_stream turns, a session whose state is
\* REVIEWING has a current MRT entry with non-blank content (has_mrt is true).
C32_ReviewingHasMrt ==
    \A session_id \in DOMAIN sessions :
        sessions[session_id].state = REVIEWING => has_mrt(sessions, session_id)

\* a turn on a session in AWAITING_MRT that brought white space as
\* mrt_content and a requirement: REVIEWING with an entry whose content is
\* empty
C32_BlankMrtReviewed ==
    /\ TurnOnExisting
    /\ turn.before.state = AWAITING_MRT
    /\ turn.request.mrt_content = <<" ">>
    /\ turn.request.files = <<>>
    /\ turn.request.software_requirement = <<"r">>
    /\ After.state = REVIEWING
    /\ EntryOf(After) # NoEntry
    /\ EntryOf(After).content = <<>>
    /\ ~HasMrtOf(After)

\* C34: once has_requirement is true for a session, it is true after every
\* later turn of that session, whatever the turn supplies.
C34_RequirementStays ==
    (TurnOnExisting /\ HasRequirementOf(turn.before)) => HasRequirementOf(After)

\* a session that held the requirement "r" was sent white space as its
\* requirement and has none now
C34_RequirementLost ==
    /\ TurnOnExisting
    /\ turn.before.software_requirement = <<"r">>
    /\ turn.request.software_requirement = <<" ">>
    /\ After.software_requirement = <<>>
    /\ ~has_requirement(sessions, turn.session_id)
    /\ ~turn.has_req

\* C35: after a chat_stream turn the session's state is never INITIAL: the
\* state the turn computes is not INITIAL, no session of the store is left in
\* INITIAL, and the turn does not yield the welcome message.
C35_NeverInitialAfterTurn ==
    /\ \A session_id \in DOMAIN sessions : sessions[session_id].state # INITIAL
    /\ turn.op = "chat_stream" =>
        /\ turn.next_state # INITIAL
        /\ After.state # INITIAL
        /\ \A i \in 1..Len(turn.chunks) : turn.chunks[i] # _get_welcome_message

\* C35 witness: the first turn of a new session with no message, no files
\* and no mrt_content, the rest of the welcome branch's test: the session
\* left INITIAL and the turn yields the guidance of AWAITING_MRT
C35_Witness ==
    /\ turn.op = "chat_stream"
    /\ turn.created
    /\ turn.current_state = INITIAL
    /\ ~Truthy(turn.request.message)
    /\ ~turn.has_file_mrt
    /\ ~Truthy(turn.request.mrt_content)
    /\ After.state = AWAITING_MRT
    /\ turn.chunks = <<_get_guidance_message(AWAITING_MRT) \o <<"\n">>>>

\* C36: no sequence of chat_stream turns puts a session in COMPLETED: no
\* session of the store is in it, no turn starts from it or computes it (so
\* the COMPLETED rows of the table are never used), and no turn yields the
\* guidance message of COMPLETED.
C36_NeverCompleted ==
    /\ \A session_id \in DOMAIN sessions : sessions[session_id].state # COMPLETED
    /\ turn.op = "chat_stream" =>
        /\ turn.current_state # COMPLETED
        /\ turn.next_state # COMPLETED
        /\ \A i \in 1..Len(turn.chunks) :
            turn.chunks[i] # _get_guidance_message(COMPLETED) \o <<"\n">>

\* C36 witness: a turn on a session in REVIEWING that holds a non-blank MRT,
\* where a review could be declared finished, leaves it in REVIEWING
C36_Witness ==
    /\ TurnOnExisting
    /\ turn.before.state = REVIEWING
    /\ HasMrtOf(turn.before)
    /\ turn.has_mrt
    /\ Truthy(turn.request.message)
    /\ After.state = REVIEWING

\* the session's mrts map holds at most one entry, and the entry it holds is
\* the current one
AtMostTheCurrentEntry(session) ==
    /\ Cardinality(DOMAIN session.mrts) <= 1
    /\ IF session.mrts = <<>>
       THEN session.current_mrt_id = "None"
       ELSE /\ session.current_mrt_id \in DOMAIN session.mrts
            /\ EntryOf(session) = session.mrts[session.current_mrt_id]

\* a turn that supplies files which yield text, and direct mrt_content too
C37_BothSupplied ==
    /\ turn.op = "chat_stream"
    /\ turn.has_file_mrt
    /\ Truthy(turn.request.mrt_content)

C38_ReviewingIsReachedAndKept ==
    [][(/\ turn.op = "chat_stream"
        /\ turn'.op = "chat_stream"
        /\ turn'.session_id = turn.session_id
        /\ ~turn'.detected_new_mrt
        /\ \/ turn.detected_new_mrt /\ turn.has_mrt
           \/ /\ sessions[turn.session_id].state = REVIEWING
              /\ has_mrt(sessions, turn.session_id)) =>
            /\ sessions'[turn.session_id].state = REVIEWING
            /\ has_mrt(sessions', turn.session_id)
            /\ get_current_mrt(sessions', turn.session_id)
                = get_current_mrt(sessions, turn.session_id)]_vars

\* C38 witness: a following turn with a message and a requirement but no
\* MRT, on a session left in AWAITING_REQUIREMENT with a non-blank MRT by
\* the turn before: REVIEWING now
C38_Witness ==
    /\ turn.op = "chat_stream"
    /\ turn.resubmit
    /\ turn.before.state = AWAITING_REQUIREMENT
    /\ HasMrtOf(turn.before)
    /\ turn.request.mrt_content = None
    /\ turn.request.files = <<>>
    /\ Truthy(turn.request.message)
    /\ turn.request.software_requirement = <<"r">>
    /\ ~turn.detected_new_mrt
    /\ After.state = REVIEWING

\* C38 witness of the second half: a following turn on a session in
\* REVIEWING that brings the MRT the session holds already
C38_WitnessKept ==
    /\ turn.op = "chat_stream"
    /\ turn.resubmit
    /\ turn.before.state = REVIEWING
    /\ turn.request.mrt_content = <<"b">>
    /\ ~turn.detected_new_mrt
    /\ After.state = REVIEWING

\* the chunk of line 370 for a state
GuidanceChunk(state) == _get_guidance_message(state) \o <<"\n">>

GuidanceChunks ==
    {GuidanceChunk(state) : state \in {AWAITING_MRT, AWAITING_REQUIREMENT, COMPLETED}}

\* the computed state is one of the two AWAITING states and the turn
\* detected a new MRT or changed the state
GuidanceDue ==
    /\ turn.next_state \in {AWAITING_MRT, AWAITING_REQUIREMENT}
    /\ turn.detected_new_mrt \/ turn.next_state # turn.current_state

\* C39: chat_stream yields a guidance chunk on a turn exactly when the
\* computed state is AWAITING_MRT or AWAITING_REQUIREMENT and the turn
\* detected a new MRT or changed the state; the chunk is that state's
\* guidance, it is the first chunk of the turn and the first event sent, and
\* every chunk of the text generator comes after it.
C39_GuidanceWhenDueAndFirst ==
    turn.op = "chat_stream" =>
        /\ (\E i \in 1..Len(turn.chunks) : turn.chunks[i] \in GuidanceChunks)
            <=> GuidanceDue
        /\ \A i \in 1..Len(turn.chunks) :
            turn.chunks[i] \in GuidanceChunks =>
                i = 1 /\ turn.chunks[i] = GuidanceChunk(turn.next_state)
        /\ \A i \in 1..Len(turn.events) :
            (turn.events[i].type = "chunk"
                /\ turn.events[i].content \in {json_dumps(c) : c \in GuidanceChunks}) =>
                i = 1 /\ GuidanceDue
        /\ (GuidanceDue /\ turn.events # <<>>) =>
            turn.events[1] = sse(GuidanceChunk(turn.next_state))
        /\ (GuidanceDue /\ turn.produced # <<>>) =>
            /\ Len(turn.events) >= 1 + Len(turn.produced)
            /\ \A k \in 1..Len(turn.produced) :
                turn.events[1 + k] = sse(turn.produced[k])

\* C39 witness: a turn that detected a new MRT and computed
\* AWAITING_REQUIREMENT; the guidance went out first, chunks of the text
\* generator after it
C39_Witness ==
    /\ turn.op = "chat_stream"
    /\ turn.next_state = AWAITING_REQUIREMENT
    /\ turn.detected_new_mrt
    /\ turn.produced # <<>>
    /\ turn.events[1] = sse(GuidanceChunk(AWAITING_REQUIREMENT))
    /\ turn.events[2] = sse(turn.produced[1])

\* C39 witness of the other direction: a turn that computed AWAITING_MRT
\* for a session already in it, with no new MRT, and yields no guidance
C39_WitnessNoGuidance ==
    /\ turn.op = "chat_stream"
    /\ turn.next_state = AWAITING_MRT
    /\ turn.current_state = AWAITING_MRT
    /\ ~turn.detected_new_mrt
    /\ \A i \in 1..Len(turn.chunks) : turn.chunks[i] \notin GuidanceChunks
    /\ turn.phase = "done"

\* two turns on one session are past line 350 and each stored the MRT text
\* it brought
C33_BothStored ==
    /\ turn.op = "concurrent"
    /\ turn.workers[1].session_id = turn.workers[2].session_id
    /\ \A i \in 1..2 :
        /\ turn.workers[i].pc = "done"
        /\ turn.workers[i].detected_new_mrt
        /\ turn.workers[i].mrt_id # "None"

\* C33: when two turns that each supply a different new MRT run at the same
\* time on one session, their store reads and writes interleaved, then once
\* both have finished current_mrt_id is a key of the session's mrts map and
\* the current MRT is the one supplied by one of the two turns.
C33_LastWriteWins ==
    C33_BothStored =>
        LET session == sessions[turn.workers[1].session_id]
        IN  /\ session.current_mrt_id \in DOMAIN session.mrts
            /\ session.mrts[session.current_mrt_id].content
                \in {strip(turn.workers[i].request.mrt_content) : i \in 1..2}

\* both turns have finished and the session's current_mrt_id names an entry
\* its map does not hold: the map holds the entry of one turn, the pointer
\* the id of the other turn's entry
C33_DanglingCurrent ==
    /\ C33_BothStored
    /\ LET session == sessions[turn.workers[1].session_id]
       IN  /\ session.current_mrt_id \in {turn.workers[i].mrt_id : i \in 1..2}
           /\ session.current_mrt_id \notin DOMAIN session.mrts
           /\ session.mrts # <<>>
           /\ get_current_mrt(sessions, turn.workers[1].session_id) = NoEntry
           /\ ~has_mrt(sessions, turn.workers[1].session_id)

\* the ids of a list of suggestions
SuggestedIds(suggestions) ==
    {suggestions[j].checklist_id : j \in 1..Len(suggestions)}

\* item i of the checklist reviewed yielded a suggestion, with its own id
ItemYields(i) ==
    /\ turn.by_item[i] # <<>>
    /\ SuggestedIds(turn.by_item[i]) = {turn.checklist[i].id}

\* no id of the custom checklist sent has a keyword mapping
CustomWithoutMappings ==
    /\ turn.items # <<>>
    /\ \A i \in 1..Len(turn.items) :
        turn.items[i].id \notin DOMAIN turn.keyword_mapping

C31_WitnessCustom ==
    /\ turn.op = "_heuristic_review"
    /\ CustomWithoutMappings
    /\ Len(turn.items) = 2
    /\ turn.items[1].id # turn.items[2].id
    /\ {<<"X">>, <<"Y">>} \subseteq SuggestedIds(turn.suggestions)

====
